---- MODULE Spec2Model ----
(***************************************************************************)
(* Verification model of the picoclaw orchestrator: the container runtime  *)
(* manager (spawnContainer: output framing, serialized frame delivery,     *)
(* watchdog, exit handling), the task store with its IPC mutations and the *)
(* scheduler loop, the session registry, and the IPC broker's mailboxes.   *)
(* Each subsystem has its own specification over its own variables; the    *)
(* variables of the other subsystems are held at their initial values.     *)
(***************************************************************************)
EXTENDS Integers, Sequences, FiniteSets, TLC

None == "none"

(***************************************************************************)
(* Bounds.                                                                 *)
(***************************************************************************)
\* largest number of marker-delimited frames in one worker's output stream
MaxFrames == 2

(***************************************************************************)
(* Sequence helpers (JavaScript string primitives).                        *)
(***************************************************************************)
\* s.slice(from-1, to) in 1-based inclusive positions; empty when from > to
Slice(s, from, to) ==
  IF from > to THEN <<>> ELSE SubSeq(s, from, IF to > Len(s) THEN Len(s) ELSE to)

\* does pat occur in s at position i
MatchAt(s, pat, i) ==
  /\ i >= 1
  /\ i + Len(pat) - 1 <= Len(s)
  /\ \A j \in 1..Len(pat) : s[i + j - 1] = pat[j]

\* String.prototype.indexOf(pat, from): first position >= from, 0 when absent
IndexOf(s, pat, from) ==
  LET hits == {i \in from..Len(s) : MatchAt(s, pat, i)}
  IN IF hits = {} THEN 0 ELSE CHOOSE i \in hits : \A j \in hits : i <= j

RECURSIVE TrimStart(_)
TrimStart(s) ==
  IF s # <<>> /\ Head(s) = "n" THEN TrimStart(Tail(s)) ELSE s

RECURSIVE TrimEnd(_)
TrimEnd(s) ==
  IF s # <<>> /\ s[Len(s)] = "n" THEN TrimEnd(SubSeq(s, 1, Len(s) - 1)) ELSE s

\* String.prototype.trim(); "n" is the newline character
Trim(s) == TrimEnd(TrimStart(s))

RECURSIVE Concat(_)
Concat(ss) == IF ss = <<>> THEN <<>> ELSE Head(ss) \o Concat(Tail(ss))

(***************************************************************************)
(* The worker's output channel.  Bytes are one-character strings:          *)
(*   "-" "P" "S" "E"  the pieces the two markers are made of               *)
(*   "n"              a newline                                            *)
(*   "a"              an ASCII payload character                           *)
(*   "1" "2"          a frame body's newSessionId field (s1, s2)           *)
(*   "!"              a frame body's status field set to "error"           *)
(*   "x"              a byte that makes the body unparsable JSON           *)
(*   "L" "C"          lead and continuation byte of one two-byte UTF-8     *)
(*                    character                                            *)
(* Decoded characters are the same strings, with "U" for the two-byte      *)
(* character and "?" for U+FFFD.                                           *)
(***************************************************************************)
\* the markers share their first and last piece, as the literals do
OUTPUT_START_MARKER == <<"-", "P", "S", "-">>
OUTPUT_END_MARKER == <<"-", "P", "E", "-">>

\* Buffer.prototype.toString() of one chunk: UTF-8 decoding that starts and
\* ends with the chunk, so a character cut by the chunk boundary decodes to
\* U+FFFD on both sides
RECURSIVE BufferToString(_)
BufferToString(bytes) ==
  IF bytes = <<>> THEN <<>>
  ELSE IF Head(bytes) = "L"
       THEN IF Len(bytes) >= 2 /\ bytes[2] = "C"
            THEN <<"U">> \o BufferToString(Tail(Tail(bytes)))
            ELSE <<"?">> \o BufferToString(Tail(bytes))
  ELSE IF Head(bytes) = "C"
       THEN <<"?">> \o BufferToString(Tail(bytes))
  ELSE <<Head(bytes)>> \o BufferToString(Tail(bytes))

TextChars == {"a", "U", "?"}

ParseError == [ok |-> FALSE, status |-> "error", newSessionId |-> None, result |-> <<>>]

\* JSON.parse of a frame body into a ContainerOutput.  A body is
\*   ["!"] ["1" | "2"] text*     with at least one character;
\* result is null (the empty sequence) when there is no text.
JsonParse(body) ==
  LET st == IF body # <<>> /\ Head(body) = "!" THEN "error" ELSE "success"
      b1 == IF body # <<>> /\ Head(body) = "!" THEN Tail(body) ELSE body
      sid == IF b1 # <<>> /\ Head(b1) = "1" THEN "s1"
             ELSE IF b1 # <<>> /\ Head(b1) = "2" THEN "s2" ELSE None
      txt == IF sid # None THEN Tail(b1) ELSE b1
  IN IF body = <<>> \/ \E i \in 1..Len(txt) : txt[i] \notin TextChars
     THEN ParseError
     ELSE [ok |-> TRUE, status |-> st, newSessionId |-> sid, result |-> txt]

\* the parse loop of the stdout handler: frames are cut out of the buffer
\* while it holds a start marker followed by an end marker
RECURSIVE ParseLoop(_, _)
ParseLoop(buf, acc) ==
  LET startIdx == IndexOf(buf, OUTPUT_START_MARKER, 1)
      endIdx == IF startIdx = 0 THEN 0 ELSE IndexOf(buf, OUTPUT_END_MARKER, startIdx)
  IN IF startIdx = 0 \/ endIdx = 0
     THEN [buf |-> buf, out |-> acc]
     ELSE LET jsonStr == Trim(Slice(buf, startIdx + Len(OUTPUT_START_MARKER), endIdx - 1))
              rest == Slice(buf, endIdx + Len(OUTPUT_END_MARKER), Len(buf))
          IN ParseLoop(rest, Append(acc, JsonParse(jsonStr)))

IsOk(f) == f.ok

\* the frames a buffer yields, unparsable bodies dropped
FramesOf(buf) == SelectSeq(ParseLoop(buf, <<>>).out, IsOk)

RECURSIVE LastSessionId(_, _)
\* newSessionId after the frames fs were parsed, starting from cur
LastSessionId(fs, cur) ==
  IF fs = <<>> THEN cur
  ELSE LastSessionId(Tail(fs), IF Head(fs).newSessionId # None
                               THEN Head(fs).newSessionId ELSE cur)

\* what writeOutput prints for one frame: three console.log lines
WriteOutput(body) ==
  OUTPUT_START_MARKER \o <<"n">> \o body \o <<"n">> \o OUTPUT_END_MARKER \o <<"n">>

\* frame bodies a worker emits
Bodies == {<<"1">>, <<"2", "a">>, <<"L", "C">>, <<"x">>}

RECURSIVE BodySeqs(_)
BodySeqs(n) ==
  IF n = 0 THEN {<<>>}
  ELSE LET shorter == BodySeqs(n - 1)
       IN shorter \cup {Append(s, b) : s \in {t \in shorter : Len(t) = n - 1}, b \in Bodies}

RECURSIVE StreamOf(_)
StreamOf(bodies) ==
  IF bodies = <<>> THEN <<>> ELSE WriteOutput(Head(bodies)) \o StreamOf(Tail(bodies))

\* the output streams a worker may produce
Streams == {StreamOf(bs) : bs \in BodySeqs(MaxFrames)}


(***************************************************************************)
(* Container runtime manager: one worker spawned by spawnContainer.        *)
(***************************************************************************)
VARIABLES
  wStream,            \* the bytes the worker prints while it lives
  wPos,               \* how many of them reached the stdout handler
  hasOnOutput,        \* spawned with a streaming callback (interactive)
  stdout,             \* let stdout: everything decoded so far
  parseBuffer,        \* let parseBuffer
  newSessionId,       \* let newSessionId
  hadStreamingOutput, \* let hadStreamingOutput
  timedOut,           \* let timedOut
  timeoutArmed,       \* the watchdog timer is pending
  outputChain,        \* callbacks queued on outputChain, oldest first
  inFlight,           \* frames whose onOutput call has started and not settled
  chainRejected,      \* an onOutput call rejected: outputChain is rejected
  procState,          \* "running", "stopping" (stop requested), "errored", "closed"
  result,             \* what the result promise resolved with, or Pending
  sentinel,           \* the _close file: "absent", "written", "consumed"
  parsedLog,          \* every frame parsed by the handler, in parse order
  deliveredLog,       \* index in parsedLog of every onOutput call, in call order
  framesAtExpiry,     \* frames printed when the watchdog first expired, -1 before
  closedAfterClose,   \* the process exited after it consumed a close sentinel
  arrivedDuringCall,  \* a frame was parsed while an onOutput call was suspended
  exitCode,           \* the code of the close event, -1 before it
  framesAtArm,        \* frames printed when the watchdog timer was last started
  stopState           \* docker stop of killOnTimeout: "none", "requested", "stopped", "killed"

workerVars ==
  <<wStream, wPos, hasOnOutput, stdout, parseBuffer, newSessionId,
    hadStreamingOutput, timedOut, timeoutArmed, outputChain, inFlight,
    chainRejected, procState, result, sentinel, parsedLog, deliveredLog,
    framesAtExpiry, closedAfterClose, arrivedDuringCall, exitCode, framesAtArm, stopState>>

ExitCodes == {0, 1}

\* the result promise before it is resolved
Pending == [status |-> "pending", result |-> <<>>, newSessionId |-> None,
            error |-> None, code |-> 0]

\* spawnContainer has registered its handlers for a worker that will print
\* stream; onOutput tells whether the caller passed a frame callback
WorkerStart(stream, onOutput) ==
  /\ wStream = stream
  /\ wPos = 0
  /\ hasOnOutput = onOutput
  /\ stdout = <<>>
  /\ parseBuffer = <<>>
  /\ newSessionId = None
  /\ hadStreamingOutput = FALSE
  /\ timedOut = FALSE
  /\ timeoutArmed = TRUE
  /\ outputChain = <<>>
  /\ inFlight = {}
  /\ chainRejected = FALSE
  /\ procState = "running"
  /\ result = Pending
  /\ sentinel = "absent"
  /\ parsedLog = <<>>
  /\ deliveredLog = <<>>
  /\ framesAtExpiry = -1
  /\ closedAfterClose = FALSE
  /\ arrivedDuringCall = FALSE
  /\ exitCode = -1
  /\ framesAtArm = 0
  /\ stopState = "none"

WorkerInit == \E stream \in Streams, onOutput \in BOOLEAN : WorkerStart(stream, onOutput)

\* a promise settles once: later resolve calls are ignored
Settle(r) == IF result = Pending THEN r ELSE result

SuccessResult == [status |-> "success", result |-> <<>>, newSessionId |-> newSessionId,
                  error |-> None, code |-> 0]
ErrorResult(e, c) == [status |-> "error", result |-> <<>>, newSessionId |-> None,
                      error |-> e, code |-> c]
\* resolve(parsed) of the non-streaming fallback
FrameResult(f) == [status |-> f.status, result |-> f.result,
                   newSessionId |-> f.newSessionId, error |-> None, code |-> 0]

\* outputChain = outputChain.then(() => onOutput(parsed)) for each parsed frame
ChainFrames(chain, first, n) ==
  chain \o [i \in 1..n |-> [kind |-> "frame", idx |-> first + i - 1]]

\* mutation: a queued call does not wait for the call before it to settle
ChainReadyNoWait == ~chainRejected

\* a callback queued on outputChain runs once the promise before it fulfilled
ChainReady == inFlight = {} /\ ~chainRejected

\* a callback queued on a fulfilled outputChain is a microtask: it runs before
\* the next event of the process or of a timer is handled
MicrotasksDone == outputChain = <<>> \/ ~ChainReady

\* proc.stdout.on("data"): a chunk of k bytes arrives
StdoutData(k) ==
  /\ MicrotasksDone
  /\ procState \in {"running", "stopping"}
  /\ k \in 1..(Len(wStream) - wPos)
  /\ LET chunk == BufferToString(SubSeq(wStream, wPos + 1, wPos + k))
         p == ParseLoop(parseBuffer \o chunk, <<>>)
         frames == SelectSeq(p.out, IsOk)
     IN /\ wPos' = wPos + k
        /\ stdout' = stdout \o chunk
        /\ IF hasOnOutput
           THEN /\ parseBuffer' = p.buf
                /\ newSessionId' = LastSessionId(frames, newSessionId)
                /\ hadStreamingOutput' = (hadStreamingOutput \/ frames # <<>>)
                /\ timeoutArmed' = (timeoutArmed \/ frames # <<>>)
                /\ framesAtArm' = IF frames # <<>>
                                  THEN Len(parsedLog) + Len(frames) ELSE framesAtArm
                /\ outputChain' = ChainFrames(outputChain, Len(parsedLog) + 1, Len(frames))
                /\ parsedLog' = parsedLog \o frames
                /\ arrivedDuringCall' =
                     (arrivedDuringCall \/ (inFlight # {} /\ frames # <<>>))
           ELSE UNCHANGED <<parseBuffer, newSessionId, hadStreamingOutput,
                            timeoutArmed, framesAtArm, outputChain, parsedLog,
                            arrivedDuringCall>>
  /\ UNCHANGED <<wStream, hasOnOutput, timedOut, inFlight, chainRejected, procState,
                 result, sentinel, deliveredLog, framesAtExpiry, closedAfterClose, exitCode,
                 stopState>>

\* killOnTimeout: the watchdog expires and the container is stopped
KillOnTimeout ==
  /\ MicrotasksDone
  /\ timeoutArmed
  /\ procState \in {"running", "stopping"}
  /\ timedOut' = TRUE
  /\ timeoutArmed' = FALSE
  /\ procState' = "stopping"
  /\ framesAtExpiry' = IF timedOut THEN framesAtExpiry ELSE Len(FramesOf(stdout))
  /\ stopState' = "requested"
  /\ UNCHANGED <<wStream, wPos, hasOnOutput, stdout, parseBuffer, newSessionId,
                 hadStreamingOutput, outputChain, inFlight, chainRejected, result,
                 sentinel, parsedLog, deliveredLog, closedAfterClose,
                 arrivedDuringCall, exitCode, framesAtArm>>

\* the callback of exec("docker stop ..."): on an error (the stop failed or took
\* longer than 15 s) the process is sent SIGKILL
DockerStopSettles(err) ==
  /\ MicrotasksDone
  /\ stopState = "requested"
  /\ stopState' = IF err THEN "killed" ELSE "stopped"
  /\ UNCHANGED <<wStream, wPos, hasOnOutput, stdout, parseBuffer, newSessionId,
                 hadStreamingOutput, timedOut, timeoutArmed, outputChain, inFlight,
                 chainRejected, procState, result, sentinel, parsedLog, deliveredLog,
                 framesAtExpiry, closedAfterClose, arrivedDuringCall, exitCode,
                 framesAtArm>>

\* the non-streaming fallback of the close handler
FallbackResult ==
  LET startIdx == IndexOf(stdout, OUTPUT_START_MARKER, 1)
      endIdx == IndexOf(stdout, OUTPUT_END_MARKER, 1)
      parsed == JsonParse(Trim(Slice(stdout, startIdx + Len(OUTPUT_START_MARKER),
                                     endIdx - 1)))
  IN IF startIdx # 0 /\ endIdx # 0 /\ parsed.ok
     THEN FrameResult(parsed)
     ELSE SuccessResult

\* mutation: the exit code is looked at after the streaming and fallback paths
CloseResolvesCodeLast(code) ==
  IF timedOut /\ hadStreamingOutput THEN Pending
  ELSE IF timedOut THEN ErrorResult("timeout", 0)
  ELSE IF hasOnOutput THEN Pending
  ELSE FallbackResult

\* the value the close handler resolves with at once, or Pending when it queues
\* the resolve behind outputChain
CloseResolves(code) ==
  IF timedOut /\ hadStreamingOutput THEN Pending
  ELSE IF timedOut THEN ErrorResult("timeout", 0)
  ELSE IF code # 0 THEN ErrorResult("exit", code)
  ELSE IF hasOnOutput THEN Pending
  ELSE FallbackResult

\* proc.on("close"): the process has exited and its streams are closed
ProcClose(code) ==
  /\ MicrotasksDone
  /\ procState \in {"running", "stopping", "errored"}
  /\ procState' = "closed"
  /\ timeoutArmed' = FALSE
  /\ closedAfterClose' = (sentinel = "consumed")
  /\ exitCode' = code
  /\ IF CloseResolves(code) = Pending
     THEN /\ outputChain' = Append(outputChain, [kind |-> "resolve", idx |-> 0])
          /\ UNCHANGED result
     ELSE /\ result' = Settle(CloseResolves(code))
          /\ UNCHANGED outputChain
  /\ UNCHANGED <<wStream, wPos, hasOnOutput, stdout, parseBuffer, newSessionId,
                 hadStreamingOutput, timedOut, inFlight, chainRejected, sentinel,
                 parsedLog, deliveredLog, framesAtExpiry, arrivedDuringCall, framesAtArm,
                 stopState>>

\* proc.on("error"): the process could not be started
ProcError ==
  /\ MicrotasksDone
  /\ procState = "running"
  /\ wPos = 0
  /\ sentinel # "consumed"
  /\ procState' = "errored"
  /\ timeoutArmed' = FALSE
  /\ result' = Settle(ErrorResult("spawn", 0))
  /\ UNCHANGED <<wStream, wPos, hasOnOutput, stdout, parseBuffer, newSessionId,
                 hadStreamingOutput, timedOut, outputChain, inFlight, chainRejected,
                 sentinel, parsedLog, deliveredLog, framesAtExpiry, closedAfterClose,
                 arrivedDuringCall, exitCode, framesAtArm, stopState>>

\* the next queued onOutput(parsed) call starts
OnOutputStart ==
  /\ outputChain # <<>>
  /\ Head(outputChain).kind = "frame"
  /\ ChainReady
  /\ inFlight' = inFlight \cup {Head(outputChain).idx}
  /\ deliveredLog' = Append(deliveredLog, Head(outputChain).idx)
  /\ outputChain' = Tail(outputChain)
  /\ UNCHANGED <<wStream, wPos, hasOnOutput, stdout, parseBuffer, newSessionId,
                 hadStreamingOutput, timedOut, timeoutArmed, chainRejected, procState,
                 result, sentinel, parsedLog, framesAtExpiry, closedAfterClose,
                 arrivedDuringCall, exitCode, framesAtArm, stopState>>

\* an onOutput call settles: it returns, or it throws (a transport send failed)
OnOutputSettle(i, ok) ==
  /\ i \in inFlight
  /\ inFlight' = inFlight \ {i}
  /\ chainRejected' = (chainRejected \/ ~ok)
  /\ UNCHANGED <<wStream, wPos, hasOnOutput, stdout, parseBuffer, newSessionId,
                 hadStreamingOutput, timedOut, timeoutArmed, outputChain, procState,
                 result, sentinel, parsedLog, deliveredLog, framesAtExpiry,
                 closedAfterClose, arrivedDuringCall, exitCode, framesAtArm, stopState>>

\* outputChain.then(() => resolve(...)) of the close handler runs
ChainResolve ==
  /\ outputChain # <<>>
  /\ Head(outputChain).kind = "resolve"
  /\ ChainReady
  /\ result' = Settle(SuccessResult)
  /\ outputChain' = Tail(outputChain)
  /\ UNCHANGED <<wStream, wPos, hasOnOutput, stdout, parseBuffer, newSessionId,
                 hadStreamingOutput, timedOut, timeoutArmed, inFlight, chainRejected,
                 procState, sentinel, parsedLog, deliveredLog, framesAtExpiry,
                 closedAfterClose, arrivedDuringCall, exitCode, framesAtArm, stopState>>

\* writeCloseSentinel: the registry asks the worker to exit
WriteCloseSentinel ==
  /\ sentinel = "absent"
  /\ procState # "closed"
  /\ sentinel' = "written"
  /\ UNCHANGED <<wStream, wPos, hasOnOutput, stdout, parseBuffer, newSessionId,
                 hadStreamingOutput, timedOut, timeoutArmed, outputChain, inFlight,
                 chainRejected, procState, result, parsedLog, deliveredLog,
                 framesAtExpiry, closedAfterClose, arrivedDuringCall, exitCode, framesAtArm, stopState>>

\* shouldClose of the agent runner: the worker sees the sentinel and removes it
ShouldClose ==
  /\ sentinel = "written"
  /\ procState \in {"running", "stopping"}
  /\ sentinel' = "consumed"
  /\ UNCHANGED <<wStream, wPos, hasOnOutput, stdout, parseBuffer, newSessionId,
                 hadStreamingOutput, timedOut, timeoutArmed, outputChain, inFlight,
                 chainRejected, procState, result, parsedLog, deliveredLog,
                 framesAtExpiry, closedAfterClose, arrivedDuringCall, exitCode, framesAtArm, stopState>>

\* the worker of the specifications that are about another subsystem
WorkerIdle == WorkerStart(<<>>, FALSE)


(***************************************************************************)
(* Task store, task mutations (processTaskIpc) and the scheduler loop.     *)
(* Time is a clock of ticks; a timestamp is a tick number and Null stands  *)
(* for next_run = null.  Task ids are drawn from a counter, as the id of   *)
(* the code is drawn from the time and a random suffix.                    *)
(***************************************************************************)
\* most mutation files applied in one behaviour
MaxMutations == 2
\* last tick of the clock
MaxTime == 2

Null == -1

Chats == {"c1", "c2"}
Labels == {"a"}
Prompts == {"p1", "p2"}

\* schedule values: "c2" a cron expression firing on every second tick, "0",
\* "1" and "2" decimal numbers, "t2" the timestamp of tick 2, "x" none of these
CronValid(v) == v = "c2"

\* CronExpressionParser.parse(v).next(): the first firing strictly after now
CronNext(v, now) == ((now \div 2) + 1) * 2

\* Number.isNaN(Number.parseInt(v, 10))
ParseIntIsNaN(v) == v \notin {"0", "1", "2"}

\* Number.parseInt(v, 10): leading digits are read and the rest is ignored
ParseInt(v) == CASE v = "0" -> 0 [] v = "1" -> 1 [] v = "2" -> 2 [] OTHER -> 0

\* Number.isNaN(new Date(v).getTime())
DateIsInvalid(v) == v # "t2"

\* new Date(v).getTime()
DateOf(v) == 2

\* mutation: computeNextRun accepts every schedule
ComputeNextRunNeverNull(schedule_type, schedule_value, now) == now + 1

\* computeNextRun of the IPC broker
ComputeNextRun(schedule_type, schedule_value, now) ==
  CASE schedule_type = "cron" ->
         IF CronValid(schedule_value) THEN CronNext(schedule_value, now) ELSE Null
    [] schedule_type = "interval" ->
         IF ParseIntIsNaN(schedule_value) \/ ParseInt(schedule_value) <= 0
         THEN Null ELSE now + ParseInt(schedule_value)
    [] schedule_type = "once" ->
         IF DateIsInvalid(schedule_value) THEN Null ELSE DateOf(schedule_value)
    [] OTHER -> Null

\* Array.find: the first of the positions that pass the test, 0 when none does
FindFirst(hits) ==
  IF hits = {} THEN 0 ELSE CHOOSE i \in hits : \A j \in hits : i <= j

\* mutation: the upsert never finds the task it should update
UpsertMatchNever(t, chatId, label) == FALSE

\* the test of the upsert lookup: same chat and same label
UpsertMatch(t, chatId, label) == t.chatId = chatId /\ t.label = label

\* mutation: the upsert lookup is never made
HasLabelNever(data) == FALSE

\* "if (data.label)": the mutation carries a label
HasLabel(data) == data.label # None

\* a mutation file's fields; None (0 for taskId) stands for an absent field
NoMutation == [type |-> None, taskId |-> 0, label |-> None, prompt |-> None,
               schedule_type |-> None, schedule_value |-> None, status |-> None,
               chatId |-> None]

\* processTaskIpc, case "schedule"
ProcessSchedule(tasks, data, chatId, now, newId) ==
  LET nextRun == ComputeNextRun(data.schedule_type, data.schedule_value, now)
      existing == IF HasLabel(data)
                  THEN FindFirst({i \in 1..Len(tasks) :
                                    UpsertMatch(tasks[i], chatId, data.label)})
                  ELSE 0
      task == [id |-> newId, chatId |-> chatId, label |-> data.label,
               prompt |-> data.prompt, schedule_type |-> data.schedule_type,
               schedule_value |-> data.schedule_value, next_run |-> nextRun,
               status |-> "active"]
  IN IF data.prompt = None \/ data.schedule_type = None \/ data.schedule_value = None
     THEN [tasks |-> tasks, wrote |-> FALSE, created |-> FALSE]
     ELSE IF nextRun = Null /\ data.schedule_type # "once"
     THEN [tasks |-> tasks, wrote |-> FALSE, created |-> FALSE]
     ELSE IF existing # 0
     THEN [tasks |-> [tasks EXCEPT ![existing] =
                        [@ EXCEPT !.prompt = data.prompt,
                                  !.schedule_type = data.schedule_type,
                                  !.schedule_value = data.schedule_value,
                                  !.next_run = nextRun,
                                  !.status = "active"]],
           wrote |-> TRUE, created |-> FALSE]
     ELSE [tasks |-> Append(tasks, task), wrote |-> TRUE, created |-> TRUE]

\* mutation: the schedule is replaced whenever a kind is supplied
ScheduleReplacedAlways(data, nextRun) == data.schedule_type # None

\* "if (data.schedule_type && data.schedule_value)" and "if (nextRun !== null)":
\* the update replaces the task's schedule
ScheduleReplaced(data, nextRun) ==
  data.schedule_type # None /\ data.schedule_value # None /\ nextRun # Null

\* processTaskIpc, case "update"
ProcessUpdate(tasks, data, chatId, now) ==
  LET idx == IF data.taskId = 0 THEN 0
             ELSE FindFirst({i \in 1..Len(tasks) : tasks[i].id = data.taskId})
      nextRun == ComputeNextRun(data.schedule_type, data.schedule_value, now)
      t0 == tasks[idx]
      t1 == IF data.prompt # None THEN [t0 EXCEPT !.prompt = data.prompt] ELSE t0
      t2 == IF data.status \in {"active", "paused"}
            THEN [t1 EXCEPT !.status = data.status] ELSE t1
      t3 == IF ScheduleReplaced(data, nextRun)
            THEN [t2 EXCEPT !.schedule_type = data.schedule_type,
                            !.schedule_value = data.schedule_value,
                            !.next_run = nextRun]
            ELSE t2
  IN IF idx = 0
     THEN [tasks |-> tasks, wrote |-> FALSE, created |-> FALSE]
     ELSE [tasks |-> [tasks EXCEPT ![idx] = t3], wrote |-> TRUE, created |-> FALSE]

\* mutation: delete by label matches the label in every chat
DeleteLabelAnyChat(t, chatId, label) == t.label = label

\* the label test of the delete filter: same chat and same label
DeleteLabelMatch(t, chatId, label) == t.chatId = chatId /\ t.label = label

\* processTaskIpc, case "delete"
ProcessDelete(tasks, data, chatId) ==
  LET Keep(t) ==
        /\ ~(IF data.taskId # 0 THEN t.id = data.taskId ELSE FALSE)
        /\ ~(IF data.label # None THEN DeleteLabelMatch(t, chatId, data.label)
             ELSE FALSE)
  IN IF data.taskId = 0 /\ data.label = None
     THEN [tasks |-> tasks, wrote |-> FALSE, created |-> FALSE]
     ELSE [tasks |-> SelectSeq(tasks, Keep), wrote |-> TRUE, created |-> FALSE]

\* processTaskIpc: the store after the mutation data read from sourceChatId's
\* mailbox, whether the store (and that chat's snapshot) was written, and
\* whether a task was created
ProcessTaskIpc(tasks, data, sourceChatId, now, newId) ==
  LET chatId == IF data.chatId # None THEN data.chatId ELSE sourceChatId
  IN CASE data.type = "schedule" -> ProcessSchedule(tasks, data, chatId, now, newId)
       [] data.type = "update" -> ProcessUpdate(tasks, data, chatId, now)
       [] data.type = "delete" -> ProcessDelete(tasks, data, chatId)
       [] OTHER -> [tasks |-> tasks, wrote |-> FALSE, created |-> FALSE]

\* the chat a mutation acts for
MutationChat(data, sourceChatId) ==
  IF data.chatId # None THEN data.chatId ELSE sourceChatId

\* tasks.filter((t) => t.chatId === chatId)
TasksOfChat(tasks, chatId) ==
  LET Mine(t) == t.chatId = chatId IN SelectSeq(tasks, Mine)

VARIABLES
  store,       \* tasks.json: the persisted list of tasks
  snapshots,   \* current_tasks.yaml of every chat
  clock,       \* Date.now()
  nextId,      \* the next fresh task id
  mutCount,    \* mutation files applied so far
  schedArmed,  \* pending setTimeout(check, TASK_CHECK_INTERVAL) timers
  passes,      \* scheduler passes in progress, each suspended in spawnEphemeral
  tLast,       \* the step that led to this state
  lastPass,    \* the pass that last wrote the store back
  firedOnce,   \* ids of once tasks fired and written back, not rescheduled since
  lastRun      \* the run of a task that ended in the step that led to this state

taskVars ==
  <<store, snapshots, clock, nextId, mutCount, schedArmed, passes, tLast,
    lastPass, firedOnce, lastRun>>

\* the step that led to a state: what it did and, for a schedule mutation, the
\* file applied and whether the step before applied the very same file
Step(op, data, src, again) == [op |-> op, data |-> data, src |-> src, again |-> again]

Other == Step("other", NoMutation, None, FALSE)

NoPass == [now |-> Null, fired |-> <<>>, ended |-> <<>>, tasks |-> <<>>, read |-> <<>>]

\* how the run of a task ends: spawnEphemeral resolves with a result text and
\* the text is sent, it resolves with a text and the send rejects, it resolves
\* with no result text, or it rejects
RunOutcomes == {"text", "sendfails", "none", "throws"}

NoRun == [id |-> 0, chatId |-> None, outcome |-> None, sentTo |-> None]

\* the body of the try block of check for one task: deps.sendMessage is called
\* with the task's chat when the result holds a text
Run(task, outcome) ==
  [id |-> task.id, chatId |-> task.chatId, outcome |-> outcome,
   sentTo |-> IF outcome \in {"text", "sendfails"} THEN task.chatId ELSE None]

TaskInit ==
  /\ store = <<>>
  /\ snapshots = [c \in Chats |-> <<>>]
  /\ clock = 0
  /\ nextId = 1
  /\ mutCount = 0
  /\ schedArmed = 1
  /\ passes = <<>>
  /\ tLast = Other
  /\ lastPass = NoPass
  /\ firedOnce = {}
  /\ lastRun = NoRun

\* the mutation files of the model: <<chat whose mailbox holds it, fields>>
Schedule(l, p, st, sv) ==
  [NoMutation EXCEPT !.type = "schedule", !.label = l, !.prompt = p,
                     !.schedule_type = st, !.schedule_value = sv]

\* (schedule_type, schedule_value) pairs computeNextRun accepts and rejects
ValidPairs == {<<"cron", "c2">>, <<"interval", "1">>, <<"once", "t2">>}
InvalidPairs == {<<"cron", "x">>, <<"interval", "0">>, <<"interval", "x">>, <<"weekly", "1">>}

ScheduleFiles ==
  {<<"c1", Schedule(l, p, sv[1], sv[2])>> :
     l \in Labels \cup {None}, p \in Prompts, sv \in ValidPairs}
  \cup {<<"c1", Schedule("a", "p2", sv[1], sv[2])>> : sv \in InvalidPairs}
  \cup {<<"c1", Schedule("a", "p1", "once", "x")>>,
        <<"c1", Schedule("a", None, "interval", "1")>>,
        <<"c1", Schedule("a", "p2", None, "1")>>,
        <<"c1", Schedule("a", "p2", "interval", None)>>,
        <<"c2", Schedule("a", "p1", "interval", "1")>>,
        <<"c2", Schedule("a", "p2", "once", "t2")>>,
        <<"c1", [Schedule("a", "p1", "interval", "1") EXCEPT !.chatId = "c2"]>>}

UpdateFiles ==
  {<<"c1", [NoMutation EXCEPT !.type = "update", !.taskId = id, !.prompt = u[1],
                              !.status = u[2], !.schedule_type = u[3],
                              !.schedule_value = u[4]]>> :
     id \in 0..MaxMutations,
     u \in {<<"p2", None, None, None>>, <<None, "paused", None, None>>,
            <<None, "active", None, None>>, <<None, "done", None, None>>,
            <<None, None, "once", "t2">>, <<None, None, "cron", "x">>,
            <<None, None, None, "2">>, <<"p1", "active", "interval", "1">>}}

DeleteFiles ==
  {<<"c1", [NoMutation EXCEPT !.type = "delete", !.taskId = id]>> :
     id \in 0..MaxMutations}
  \cup {<<c, [NoMutation EXCEPT !.type = "delete", !.label = "a"]>> : c \in Chats}

MutationFiles ==
  ScheduleFiles \cup UpdateFiles \cup DeleteFiles
    \cup {<<"c1", [NoMutation EXCEPT !.type = "pause"]>>}

\* ids of once tasks that stay as the scheduler left them: still stored, with
\* the schedule and next_run they had
StillFired(ids, old, new) ==
  {id \in ids :
     \E i \in 1..Len(old), j \in 1..Len(new) :
        /\ old[i].id = id /\ new[j].id = id
        /\ new[j].next_run = old[i].next_run
        /\ new[j].schedule_type = old[i].schedule_type
        /\ new[j].schedule_value = old[i].schedule_value}

\* the broker applies one task-mutation file read from src's mailbox
ApplyMutation(src, data) ==
  /\ mutCount < MaxMutations
  /\ LET r == ProcessTaskIpc(store, data, src, clock, nextId)
         chatId == MutationChat(data, src)
     IN /\ store' = r.tasks
        /\ nextId' = IF r.created THEN nextId + 1 ELSE nextId
        /\ snapshots' = IF r.wrote
                        THEN [snapshots EXCEPT ![chatId] = TasksOfChat(r.tasks, chatId)]
                        ELSE snapshots
        /\ firedOnce' = StillFired(firedOnce, store, r.tasks)
  /\ mutCount' = mutCount + 1
  /\ tLast' = IF data.type = "schedule"
              THEN Step("schedule", data, src,
                        tLast.op = "schedule" /\ tLast.data = data /\ tLast.src = src)
              ELSE Other
  /\ lastRun' = NoRun
  /\ UNCHANGED <<clock, schedArmed, passes, lastPass>>

\* time passes
Tick ==
  /\ clock < MaxTime
  /\ clock' = clock + 1
  /\ tLast' = Other
  /\ lastRun' = NoRun
  /\ UNCHANGED <<store, snapshots, nextId, mutCount, schedArmed, passes, lastPass,
                 firedOnce>>

\* mutation: the loop does not look at the status of a task
IsDueAnyStatus(task, now) ==
  /\ task.next_run # Null
  /\ task.next_run <= now

\* the test of the scheduler's loop: the task is run in this pass
IsDue(task, now) ==
  /\ task.status = "active"
  /\ task.next_run # Null
  /\ task.next_run <= now

\* first due task of tasks at position from or later, 0 when there is none
NextDue(tasks, from, now) ==
  LET hits == {i \in from..Len(tasks) : IsDue(tasks[i], now)}
  IN IF hits = {} THEN 0 ELSE CHOOSE i \in hits : \A j \in hits : i <= j

\* mutation: a once task is left as it was after its run
AfterRunKeepsOnce(task, now) ==
  IF task.schedule_type = "cron"
  THEN [task EXCEPT !.next_run = IF CronValid(task.schedule_value)
                                 THEN CronNext(task.schedule_value, now) ELSE Null]
  ELSE IF task.schedule_type = "interval"
  THEN [task EXCEPT !.next_run = now + ParseInt(task.schedule_value)]
  ELSE task

\* mutation: an interval task is left as it was after its run
AfterRunSkipsInterval(task, now) ==
  IF task.schedule_type = "once"
  THEN [task EXCEPT !.next_run = Null, !.status = "paused"]
  ELSE IF task.schedule_type = "cron"
  THEN [task EXCEPT !.next_run = IF CronValid(task.schedule_value)
                                 THEN CronNext(task.schedule_value, now) ELSE Null]
  ELSE task

\* "Update next_run or remove if one-shot": the task after its run, now being
\* the time at which the run ended
AfterRun(task, now) ==
  IF task.schedule_type = "once"
  THEN [task EXCEPT !.next_run = Null, !.status = "paused"]
  ELSE IF task.schedule_type = "cron"
  THEN [task EXCEPT !.next_run = IF CronValid(task.schedule_value)
                                 THEN CronNext(task.schedule_value, now) ELSE Null]
  ELSE IF task.schedule_type = "interval"
  THEN [task EXCEPT !.next_run = now + ParseInt(task.schedule_value)]
  ELSE task

\* mutation: a task whose run threw is left as it was
AfterOutcomeSkipsFailed(task, outcome, now) ==
  IF outcome = "throws" THEN task ELSE AfterRun(task, now)

\* the task after the try block of its run: the catch clause only logs, so
\* next_run is updated whatever the outcome of the run
AfterOutcome(task, outcome, now) == AfterRun(task, now)

\* mutation: the next check is armed when a pass starts, not when it ends
ArmsAtStartOfPass == TRUE

\* check() re-arms its timer only as its last statement
ArmsBeforePassEnds == FALSE

\* a pass suspended in the run of tasks[i]: its copy of the store, the now it
\* read, the ids of the tasks it has run, the time each of those runs ended,
\* and the store as readTasks returned it when the pass began
Pass(tasks, i, now, fired, ended, read) ==
  [tasks |-> tasks, i |-> i, now |-> now, fired |-> fired, ended |-> ended,
   read |-> read]

\* the check timer fires: a pass reads the store and runs up to its first
\* await, the spawnEphemeral of the first due task; with no due task the pass
\* ends at once, writes nothing and re-arms the timer
PassStart ==
  /\ schedArmed > 0
  /\ LET first == NextDue(store, 1, clock)
     IN IF first = 0
        THEN /\ passes' = passes
             /\ schedArmed' = schedArmed - 1 + 1
             /\ snapshots' = snapshots
        ELSE /\ passes' = Append(passes, Pass(store, first, clock, <<>>, <<>>, store))
             /\ schedArmed' = schedArmed - 1 + (IF ArmsBeforePassEnds THEN 1 ELSE 0)
             /\ snapshots' = [snapshots EXCEPT ![store[first].chatId] =
                                TasksOfChat(store, store[first].chatId)]
  /\ tLast' = Step("pass", NoMutation, None, FALSE)
  /\ lastRun' = NoRun
  /\ UNCHANGED <<store, clock, nextId, mutCount, lastPass, firedOnce>>

RemoveAt(seq, k) == SubSeq(seq, 1, k - 1) \o SubSeq(seq, k + 1, Len(seq))

\* ids of the once tasks among the tasks a pass ran
OnceIds(pass) ==
  {pass.tasks[i].id : i \in {j \in 1..Len(pass.tasks) :
      /\ pass.tasks[j].schedule_type = "once"
      /\ \E k \in 1..Len(pass.fired) : pass.fired[k] = pass.tasks[j].id}}

\* the run of the task pass k waits for ends (with a result, with none, or by
\* throwing); the task's next_run is updated and the loop goes on to the next
\* due task, where it suspends again, or ends: the pass's tasks are written
\* back and the timer is re-armed. writeTasks is called outside every try
\* block: when it throws (writeOk false) check rejects before its setTimeout.
\* A run or a send that throws is caught and logged: the statements after the
\* try block are the same for every outcome
PassResume(k, writeOk, outcome) ==
  /\ k \in 1..Len(passes)
  /\ lastRun' = Run(passes[k].tasks[passes[k].i], outcome)
  /\ LET pass == passes[k]
         task == pass.tasks[pass.i]
         tasks1 == [pass.tasks EXCEPT ![pass.i] = AfterOutcome(task, outcome, clock)]
         fired1 == Append(pass.fired, task.id)
         ended1 == Append(pass.ended, clock)
         next == NextDue(tasks1, pass.i + 1, pass.now)
         done == Pass(tasks1, pass.i, pass.now, fired1, ended1, pass.read)
     IN IF next # 0
        THEN /\ passes' = [passes EXCEPT ![k] = Pass(tasks1, next, pass.now, fired1, ended1,
                                                         pass.read)]
             /\ snapshots' = [snapshots EXCEPT ![tasks1[next].chatId] =
                                TasksOfChat(store, tasks1[next].chatId)]
             /\ tLast' = Other
             /\ writeOk
             /\ UNCHANGED <<store, schedArmed, lastPass, firedOnce>>
        ELSE IF ~writeOk
        THEN /\ passes' = RemoveAt(passes, k)
             /\ tLast' = Step("writefail", NoMutation, None, FALSE)
             /\ UNCHANGED <<store, snapshots, schedArmed, lastPass, firedOnce>>
        ELSE /\ passes' = RemoveAt(passes, k)
             /\ store' = tasks1
             /\ schedArmed' = schedArmed + (IF ArmsBeforePassEnds THEN 0 ELSE 1)
             /\ lastPass' = [now |-> pass.now, fired |-> fired1, ended |-> ended1,
                              tasks |-> pass.tasks, read |-> pass.read]
             /\ firedOnce' = StillFired(firedOnce, store, tasks1) \cup OnceIds(done)
             /\ tLast' = Step("writeback", NoMutation, None, FALSE)
             /\ UNCHANGED snapshots
  /\ UNCHANGED <<clock, nextId, mutCount>>


(***************************************************************************)
(* The session registry: the containers Map of the host process and the    *)
(* handlers that read and write it.                                         *)
(***************************************************************************)

\* most workers spawned for inbound messages in one behaviour
MaxSpawns == 2

\* the chats of the registry: every Map of the host is keyed by chat, and no
\* handler reads or writes another chat's key
RegChats == {"c1"}

\* the bots polled in parallel; each awaits handleMessage before its next update
Bots == {"b1", "b2"}

\* inbound texts: the reset command and any other message
Texts == {"/new", "hi"}

\* newSessionId of an output: absent, or a session id
SessionIds == {None, "s1"}

\* mutation: set adds the entry and keeps the one stored under the key
MapSetKeepsOld(m, chatId, state) == m \cup {state}

\* containers.set(chatId, state): the entry stored under chatId is replaced
MapSet(m, chatId, state) == {e \in m : e.chatId # chatId} \cup {state}

\* containers.delete(chatId)
MapDelete(m, chatId) == {e \in m : e.chatId # chatId}

\* containers.has(chatId), and the truthiness of containers.get(chatId)
MapHas(m, chatId) == \E e \in m : e.chatId = chatId

\* containers.get(chatId)
MapGet(m, chatId) == CHOOSE e \in m : e.chatId = chatId

VARIABLES
  containers,       \* the entries of the containers Map
  workers,          \* the workers spawned so far, by container name 1, 2, ..
  handlers,         \* where each bot's handleMessage call is suspended
  idleTimers,       \* chats with a pending idle timer
  typingIntervals,  \* chats with a typing interval
  closeFiles,       \* chats whose input directory holds the _close sentinel
  inputFiles,       \* the follow-up messages held by the input directories
  sessions,         \* sessions.json: the session id stored for each chat
  idleStale,        \* chats whose pending idle timer was armed before the
                    \* chat's last inbound message or delivered output frame
  afterReset,       \* chats reset with no startContainer call or spawn since
  unanswered,       \* chats with an accepted message and nothing sent since
  rLast             \* "replace" when the last step's containers.set found an
                    \* entry, "idle" when the last step was an idle timer's callback

regVars ==
  <<containers, workers, handlers, idleTimers, typingIntervals, closeFiles,
    inputFiles, sessions, idleStale, afterReset, unanswered, rLast>>

Idle == [chatId |-> None, pc |-> "idle", sessionId |-> None]

RegInit ==
  /\ containers = {}
  /\ workers = <<>>
  /\ handlers = [b \in Bots |-> Idle]
  /\ idleTimers = {}
  /\ typingIntervals = {}
  /\ closeFiles = {}
  /\ inputFiles = {}
  /\ sessions = [c \in RegChats |-> None]
  /\ idleStale = {}
  /\ afterReset = {}
  /\ unanswered = {}
  /\ rLast = "other"

\* the name spawnContainer gives a container, as the string it is
ContainerName(n) == ToString(n)

\* writeIpcInput(chatId, text, from): one file holding the payload
\* {type: "message", text, from} is written to the chat's input directory
WriteIpcInput(chatId, text, from) == [chatId |-> chatId, text |-> text, from |-> from]

\* handleMessage up to its first await: the reset command closes and forgets
\* the chat's container and clears its session, a message for a chat with a
\* container is written to its input directory, and any other message enters
\* startContainer, which suspends in dispatchChatAction. The follow-up call is
\* writeIpcInput(chatId, state.containerName, text, caller): the arguments bind
\* by position, so the container name is the payload's text and the message
\* text its from; the idle timer is not touched.
HandleMessage(b, chatId, text) ==
  /\ handlers[b] = Idle
  /\ IF text = "/new"
     THEN /\ containers' = MapDelete(containers, chatId)
          /\ closeFiles' = IF MapHas(containers, chatId)
                           THEN closeFiles \cup {chatId} ELSE closeFiles
          /\ typingIntervals' = IF MapHas(containers, chatId)
                                THEN typingIntervals \ {chatId} ELSE typingIntervals
          /\ idleTimers' = IF MapHas(containers, chatId)
                           THEN idleTimers \ {chatId} ELSE idleTimers
          /\ sessions' = [sessions EXCEPT ![chatId] = None]
          /\ handlers' = [handlers EXCEPT ![b] = [Idle EXCEPT !.chatId = chatId, !.pc = "reply"]]
          /\ idleStale' = IF MapHas(containers, chatId)
                          THEN idleStale \ {chatId} ELSE idleStale
          /\ afterReset' = afterReset \cup {chatId}
          /\ rLast' = "other"
          /\ UNCHANGED <<inputFiles, unanswered>>
     ELSE IF MapHas(containers, chatId)
     THEN /\ inputFiles' =
               inputFiles \cup
                 {WriteIpcInput(chatId,
                                ContainerName(MapGet(containers, chatId).containerName),
                                text)}
          /\ typingIntervals' = typingIntervals \cup {chatId}
          /\ handlers' = [handlers EXCEPT ![b] = [Idle EXCEPT !.chatId = chatId, !.pc = "typing"]]
          /\ idleStale' = IF chatId \in idleTimers
                          THEN idleStale \cup {chatId} ELSE idleStale
          /\ unanswered' = unanswered \cup {chatId}
          /\ rLast' = "other"
          /\ UNCHANGED <<containers, closeFiles, idleTimers, sessions, afterReset>>
     ELSE /\ handlers' = [handlers EXCEPT ![b] =
                            [chatId |-> chatId, pc |-> "action",
                             sessionId |-> sessions[chatId]]]
          /\ afterReset' = afterReset \ {chatId}
          /\ unanswered' = unanswered \cup {chatId}
          /\ rLast' = "other"
          /\ UNCHANGED <<containers, closeFiles, typingIntervals, idleTimers,
                         inputFiles, sessions, idleStale>>
  /\ UNCHANGED workers

\* startContainer: dispatchChatAction settles and spawnContainer is called
DispatchChatActionDone(b) ==
  /\ handlers[b].pc = "action"
  /\ handlers' = [handlers EXCEPT ![b].pc = "spawn"]
  /\ rLast' = "other"
  /\ UNCHANGED <<containers, workers, idleTimers, typingIntervals, closeFiles,
                 inputFiles, sessions, idleStale, afterReset, unanswered>>

Worker(chatId) == [chatId |-> chatId, state |-> "booting", busy |-> "no"]

\* startContainer after spawnContainer returned: the container is recorded
\* under its chat, typing starts and the idle timer is armed
StartContainerDone(b) ==
  /\ handlers[b].pc = "spawn"
  /\ Len(workers) < MaxSpawns
  /\ LET chatId == handlers[b].chatId
         containerName == Len(workers) + 1
     IN /\ workers' = Append(workers, Worker(chatId))
        /\ containers' = MapSet(containers, chatId,
                                [chatId |-> chatId, containerName |-> containerName,
                                 sessionId |-> handlers[b].sessionId])
        /\ typingIntervals' = typingIntervals \cup {chatId}
        /\ idleTimers' = idleTimers \cup {chatId}
        /\ idleStale' = idleStale \ {chatId}
        /\ afterReset' = afterReset \ {chatId}
        /\ rLast' = IF MapHas(containers, chatId) THEN "replace" ELSE "other"
  /\ handlers' = [handlers EXCEPT ![b] = Idle]
  /\ UNCHANGED <<closeFiles, inputFiles, sessions, unanswered>>

\* spawnContainer throws: handleMessage rejects and pollBot logs the error
SpawnFails(b) ==
  /\ handlers[b].pc = "spawn"
  /\ handlers' = [handlers EXCEPT ![b] = Idle]
  /\ rLast' = "other"
  /\ UNCHANGED <<containers, workers, idleTimers, typingIntervals, closeFiles,
                 inputFiles, sessions, idleStale, afterReset, unanswered>>

\* the await that ends handleMessage (the reset reply, the typing action)
\* settles
HandleMessageReturns(b) ==
  /\ handlers[b].pc \in {"reply", "typing"}
  /\ handlers' = [handlers EXCEPT ![b] = Idle]
  /\ rLast' = "other"
  /\ UNCHANGED <<containers, workers, idleTimers, typingIntervals, closeFiles,
                 inputFiles, sessions, idleStale, afterReset, unanswered>>

\* mutation: the callback leaves the typing interval running
IdleTimeoutKeepsTyping(chatId) ==
  /\ chatId \in idleTimers
  /\ idleTimers' = idleTimers \ {chatId}
  /\ IF MapHas(containers, chatId)
     THEN /\ closeFiles' = closeFiles \cup {chatId}
          /\ containers' = MapDelete(containers, chatId)
     ELSE UNCHANGED <<closeFiles, containers>>
  /\ idleStale' = idleStale \ {chatId}
  /\ rLast' = "idle"
  /\ UNCHANGED <<workers, handlers, inputFiles, sessions, afterReset, unanswered,
                 typingIntervals>>

\* the callback of resetIdleTimer: the chat's container, if there is one, is
\* asked to close and forgotten
IdleTimeout(chatId) ==
  /\ chatId \in idleTimers
  /\ idleTimers' = idleTimers \ {chatId}
  /\ IF MapHas(containers, chatId)
     THEN /\ closeFiles' = closeFiles \cup {chatId}
          /\ containers' = MapDelete(containers, chatId)
          /\ typingIntervals' = typingIntervals \ {chatId}
     ELSE UNCHANGED <<closeFiles, containers, typingIntervals>>
  /\ idleStale' = idleStale \ {chatId}
  /\ rLast' = "idle"
  /\ UNCHANGED <<workers, handlers, inputFiles, sessions, afterReset, unanswered>>

\* the callback of startTyping: the typing action is sent again while the chat
\* has a container, and the interval is cleared when it has none
TypingTick(chatId) ==
  /\ chatId \in typingIntervals
  /\ typingIntervals' = IF MapHas(containers, chatId)
                        THEN typingIntervals ELSE typingIntervals \ {chatId}
  /\ rLast' = "other"
  /\ UNCHANGED <<containers, workers, handlers, idleTimers, closeFiles, inputFiles,
                 sessions, idleStale, afterReset, unanswered>>

\* the worker's main starts: a stale _close sentinel is removed
WorkerMain(w) ==
  /\ w \in 1..Len(workers)
  /\ workers[w].state = "booting"
  /\ workers' = [workers EXCEPT ![w].state = "live"]
  /\ closeFiles' = closeFiles \ {workers[w].chatId}
  /\ rLast' = "other"
  /\ UNCHANGED <<containers, handlers, idleTimers, typingIntervals, inputFiles,
                 sessions, idleStale, afterReset, unanswered>>

\* the worker's drainIpcInput reads and removes the follow-up messages
DrainIpcInput(w) ==
  /\ w \in 1..Len(workers)
  /\ workers[w].state = "live"
  /\ \E f \in inputFiles : f.chatId = workers[w].chatId
  /\ inputFiles' = {f \in inputFiles : f.chatId # workers[w].chatId}
  /\ rLast' = "other"
  /\ UNCHANGED <<containers, workers, handlers, idleTimers, typingIntervals,
                 closeFiles, sessions, idleStale, afterReset, unanswered>>

\* the worker's shouldClose finds and removes the _close sentinel
WorkerShouldClose(w) ==
  /\ w \in 1..Len(workers)
  /\ workers[w].state = "live"
  /\ workers[w].chatId \in closeFiles
  /\ closeFiles' = closeFiles \ {workers[w].chatId}
  /\ rLast' = "other"
  /\ UNCHANGED <<containers, workers, handlers, idleTimers, typingIntervals,
                 inputFiles, sessions, idleStale, afterReset, unanswered>>

\* handleOutput up to its await of dispatchMessage: the frame's session id is
\* stored for the chat and in the chat's registry entry, whichever worker the
\* entry belongs to
HandleOutput(w, sid, type) ==
  /\ w \in 1..Len(workers)
  /\ workers[w].state \in {"live", "draining"}
  /\ workers[w].busy = "no"
  /\ LET chatId == workers[w].chatId
     IN IF sid # None
        THEN /\ sessions' = [sessions EXCEPT ![chatId] = sid]
             /\ containers' =
                  IF MapHas(containers, chatId)
                  THEN MapSet(containers, chatId,
                              [MapGet(containers, chatId) EXCEPT !.sessionId = sid])
                  ELSE containers
        ELSE UNCHANGED <<sessions, containers>>
  /\ workers' = [workers EXCEPT ![w].busy = type]
  /\ rLast' = "other"
  /\ UNCHANGED <<handlers, idleTimers, typingIntervals, closeFiles, inputFiles,
                 idleStale, afterReset, unanswered>>

\* mutation: every frame stops typing
StopsTypingAlways(type) == TRUE

\* "Only stop typing on final result, not streaming text blocks"
StopsTyping(type) == type # "text"

\* handleOutput after dispatchMessage settled: the result text has reached the
\* chat, typing stops on a final result and the idle timer is re-armed; nothing
\* of this happens when the send threw
HandleOutputDone(w, ok) ==
  /\ w \in 1..Len(workers)
  /\ workers[w].busy # "no"
  /\ LET chatId == workers[w].chatId
     IN IF ok
        THEN /\ typingIntervals' = IF StopsTyping(workers[w].busy)
                                   THEN typingIntervals \ {chatId} ELSE typingIntervals
             /\ idleTimers' = idleTimers \cup {chatId}
             /\ idleStale' = idleStale \ {chatId}
        ELSE /\ idleStale' = IF chatId \in idleTimers
                             THEN idleStale \cup {chatId} ELSE idleStale
             /\ UNCHANGED <<typingIntervals, idleTimers>>
  /\ workers' = [workers EXCEPT ![w].busy = "no"]
  /\ unanswered' = IF ok THEN unanswered \ {workers[w].chatId} ELSE unanswered
  /\ rLast' = "other"
  /\ UNCHANGED <<containers, handlers, closeFiles, inputFiles, sessions, afterReset>>

\* the worker's result promise resolves and the handler registered by
\* startContainer runs: the chat's entry is deleted, whichever worker it belongs
\* to, typing stops, the idle timer is cleared and the final session id stored.
\* A result resolved by a non-zero exit does not wait for the output chain
\* (draining): frames still queued reach handleOutput afterwards. An error
\* result carries no session id and is logged; nothing is sent to the chat.
\* A worker that exits before its main ran has printed no frame, so its result
\* carries no session id either.
ResultResolves(w, sid, draining) ==
  /\ w \in 1..Len(workers)
  /\ workers[w].state \in {"booting", "live"}
  /\ draining \/ workers[w].busy = "no"
  /\ draining => sid = None
  /\ workers[w].state = "booting" => sid = None
  /\ LET chatId == workers[w].chatId
     IN /\ containers' = MapDelete(containers, chatId)
        /\ typingIntervals' = typingIntervals \ {chatId}
        /\ idleTimers' = idleTimers \ {chatId}
        /\ sessions' = IF sid # None THEN [sessions EXCEPT ![chatId] = sid] ELSE sessions
  /\ workers' = [workers EXCEPT ![w].state = IF draining THEN "draining" ELSE "gone"]
  /\ idleStale' = idleStale \ {workers[w].chatId}
  /\ rLast' = "other"
  /\ UNCHANGED <<handlers, closeFiles, inputFiles, afterReset, unanswered>>

\* the output chain of a worker that exited has run all its callbacks
ChainDrained(w) ==
  /\ w \in 1..Len(workers)
  /\ workers[w].state = "draining"
  /\ workers[w].busy = "no"
  /\ workers' = [workers EXCEPT ![w].state = "gone"]
  /\ rLast' = "other"
  /\ UNCHANGED <<containers, handlers, idleTimers, typingIntervals, closeFiles,
                 inputFiles, sessions, idleStale, afterReset, unanswered>>


(***************************************************************************)
(* The IPC broker: the poll pass of startIpcWatcher over the mailboxes of  *)
(* every chat's workspace.                                                  *)
(***************************************************************************)

\* most files written to the mailboxes in one behaviour
MaxFiles == 3

\* most poll passes started in one behaviour
MaxPolls == 2

\* readdirSync(WORKSPACES_DIR): the chats with a workspace, in directory order
ChatIds == <<"c1", "c2">>

\* what the files of the model hold, by mailbox: a message with a text, a
\* message without, a prayer, a schedule mutation, a delete mutation, and
\* "bad" for a file JSON.parse throws on
FileKinds ==
  {<<"c1", "messages", "text">>, <<"c1", "messages", "notext">>,
   <<"c1", "messages", "bad">>, <<"c1", "prayers", "ok">>,
   <<"c1", "prayers", "bad">>, <<"c1", "tasks", "schedule">>,
   <<"c1", "tasks", "delete">>, <<"c1", "tasks", "bad">>,
   <<"c2", "messages", "text">>, <<"c2", "tasks", "schedule">>}

File(id, kind) == [id |-> id, chatId |-> kind[1], dir |-> kind[2], body |-> kind[3]]

\* JSON.parse of a task file's content
TaskData(body) ==
  IF body = "schedule" THEN Schedule("a", "p1", "interval", "1")
  ELSE [NoMutation EXCEPT !.type = "delete", !.label = "a"]

\* the files of a set in the order of their names
RECURSIVE Sorted(_)
Sorted(files) ==
  IF files = {} THEN <<>>
  ELSE LET f == CHOOSE x \in files : \A y \in files : x.id <= y.id
       IN <<f>> \o Sorted(files \ {f})

\* readdirSync(dir).filter(f => f.endsWith(".json")).sort()
Listing(files, chatId, dir) ==
  Sorted({f \in files : f.chatId = chatId /\ f.dir = dir})

Ids(queue) == {queue[i].id : i \in 1..Len(queue)}

\* mutation: the catch block leaves the file where it is
CatchKeepsFile == FALSE

\* the catch block of each mailbox loop unlinks the file
CatchUnlinks == TRUE

Entry(f, outcome, pass) == [id |-> f.id, outcome |-> outcome, pass |-> pass]

\* the catch block: the error is logged and the file unlinked
Caught(S, f, outcome, pass) ==
  [S EXCEPT !.mailbox = IF CatchUnlinks THEN @ \ {f} ELSE @,
            !.log = Append(@, Entry(f, outcome, pass))]

\* the body of the prayers loop for one file
ProcessPrayer(S, f, pass) ==
  IF f.body = "bad" THEN Caught(S, f, "malformed", pass)
  ELSE [S EXCEPT !.mailbox = @ \ {f},
                 !.jsonl = Append(@, f.id),
                 !.log = Append(@, Entry(f, "prayer", pass))]

\* processTaskIpc has returned r for the file f of the tasks loop
TaskFileDone(S, f, r, chatId, pass) ==
  [S EXCEPT !.mailbox = @ \ {f},
            !.store = r.tasks,
            !.nextId = IF r.created THEN @ + 1 ELSE @,
            !.snapshots = IF r.wrote
                          THEN [@ EXCEPT ![chatId] = TasksOfChat(r.tasks, chatId)]
                          ELSE @,
            !.mtime = IF r.wrote THEN @ + 1 ELSE @,
            !.log = Append(@, Entry(f, "applied", pass))]

\* the body of the tasks loop for one file
ProcessTaskFile(S, f, pass, now) ==
  IF f.body = "bad" THEN Caught(S, f, "malformed", pass)
  ELSE TaskFileDone(S, f,
                    ProcessTaskIpc(S.store, TaskData(f.body), f.chatId, now, S.nextId),
                    MutationChat(TaskData(f.body), f.chatId), pass)

\* the body of the prayers loop or of the tasks loop for one file
ProcessFile(S, f, pass, now) ==
  IF f.dir = "prayers" THEN ProcessPrayer(S, f, pass)
  ELSE ProcessTaskFile(S, f, pass, now)

\* the prayers loop and the tasks loop, which never suspend
RECURSIVE ProcessSync(_, _, _, _)
ProcessSync(S, queue, pass, now) ==
  IF queue = <<>> THEN S
  ELSE ProcessSync(ProcessFile(S, Head(queue), pass, now), Tail(queue), pass, now)

\* the pass lists the files queue of a mailbox
See(S, queue) == [S EXCEPT !.seen = @ \cup Ids(queue)]

\* the prayers mailbox or the tasks mailbox of a chat is listed and processed
ProcessDir(S, chatId, dir, pass, now) ==
  ProcessSync(See(S, Listing(S.mailbox, chatId, dir)),
              Listing(S.mailbox, chatId, dir), pass, now)

\* mutation: the pass never rewrites the snapshots
RefreshSnapshotsNever(S) == S

\* "Refresh snapshots for all chats whenever tasks.json changes on disk"
RefreshSnapshots(S) ==
  IF S.mtime # S.lastMtime
  THEN [S EXCEPT !.lastMtime = S.mtime,
                 !.snapshots = [c \in Chats |-> TasksOfChat(S.store, c)]]
  ELSE S

RECURSIVE RunPass(_, _, _, _, _)

\* the loop over the chats goes on after chat number ci: with the messages
\* mailbox of the next chat, or with the snapshots and the end of the pass
NextChat(S, ci, pass, now) ==
  IF ci = Len(ChatIds)
  THEN [S |-> RefreshSnapshots(S), suspended |-> FALSE, ci |-> ci, queue |-> <<>>,
        sending |-> <<>>]
  ELSE RunPass(See(S, Listing(S.mailbox, ChatIds[ci + 1], "messages")), ci + 1,
               Listing(S.mailbox, ChatIds[ci + 1], "messages"), pass, now)

\* poll from the messages loop of chat number ci, queue being the files of
\* that loop not looked at yet, up to the next await of sendMessage or to the
\* end of the pass
RunPass(S, ci, queue, pass, now) ==
  IF queue # <<>>
  THEN IF Head(queue).body = "bad"
       THEN RunPass(Caught(S, Head(queue), "malformed", pass), ci, Tail(queue), pass, now)
       ELSE IF Head(queue).body = "text"
       THEN [S |-> [S EXCEPT !.mailbox = @ \ {Head(queue)}], suspended |-> TRUE,
             ci |-> ci, queue |-> Tail(queue), sending |-> <<Head(queue)>>]
       ELSE RunPass([S EXCEPT !.mailbox = @ \ {Head(queue)},
                              !.log = Append(@, Entry(Head(queue), "notext", pass))],
                    ci, Tail(queue), pass, now)
  ELSE NextChat(ProcessDir(ProcessDir(S, ChatIds[ci], "prayers", pass, now),
                           ChatIds[ci], "tasks", pass, now),
                ci, pass, now)

VARIABLES
  mailbox,         \* the files in the mailboxes of all chats
  nextFile,        \* the name of the next file written
  ipcArmed,        \* setTimeout(poll, IPC_POLL_INTERVAL) is pending
  ipcPass,         \* the poll pass suspended in sendMessage, if there is one
  ipcLog,          \* the files processed so far, with the outcome and the pass
  messagesJsonl,   \* messages.jsonl: the prayers appended
  tasksMtime,      \* the modification time of tasks.json
  lastTasksMtime,  \* lastTasksMtime of the watcher
  pollCount,       \* poll passes started so far
  lastSeen         \* the files the last finished pass listed

ipcVars ==
  <<mailbox, nextFile, ipcArmed, ipcPass, ipcLog, messagesJsonl, tasksMtime,
    lastTasksMtime, pollCount, lastSeen>>

NoIpcPass == [ci |-> 0, queue |-> <<>>, sending |-> <<>>, seen |-> {}]

IpcInit ==
  /\ mailbox = {}
  /\ nextFile = 1
  /\ ipcArmed = TRUE
  /\ ipcPass = NoIpcPass
  /\ ipcLog = <<>>
  /\ messagesJsonl = <<>>
  /\ tasksMtime = 0
  /\ lastTasksMtime = 0
  /\ pollCount = 0
  /\ lastSeen = {}

\* a worker writes a file to one of its chat's mailboxes
WriteFile(kind) ==
  /\ nextFile <= MaxFiles
  /\ mailbox' = mailbox \cup {File(nextFile, kind)}
  /\ nextFile' = nextFile + 1
  /\ UNCHANGED <<ipcArmed, ipcPass, ipcLog, messagesJsonl, tasksMtime, lastTasksMtime,
                 pollCount, lastSeen, store, snapshots, nextId>>

\* what the host holds when a pass runs
IpcState(seen) ==
  [mailbox |-> mailbox, log |-> ipcLog, jsonl |-> messagesJsonl, store |-> store,
   snapshots |-> snapshots, nextId |-> nextId, mtime |-> tasksMtime,
   lastMtime |-> lastTasksMtime, seen |-> seen]

\* the pass has run up to its next await, or to its end, where it re-arms
Resume(r) ==
  /\ mailbox' = r.S.mailbox
  /\ ipcLog' = r.S.log
  /\ messagesJsonl' = r.S.jsonl
  /\ store' = r.S.store
  /\ snapshots' = r.S.snapshots
  /\ nextId' = r.S.nextId
  /\ tasksMtime' = r.S.mtime
  /\ lastTasksMtime' = r.S.lastMtime
  /\ IF r.suspended
     THEN /\ ipcPass' = [ci |-> r.ci, queue |-> r.queue, sending |-> r.sending,
                         seen |-> r.S.seen]
          /\ ipcArmed' = FALSE
          /\ UNCHANGED lastSeen
     ELSE /\ ipcPass' = NoIpcPass
          /\ ipcArmed' = TRUE
          /\ lastSeen' = r.S.seen

\* the poll timer fires. The readdirSync of a mailbox directory is outside
\* every try block: when it throws (readOk false, here for the first mailbox
\* listed) poll rejects before its setTimeout
Poll(readOk) ==
  /\ ipcArmed
  /\ pollCount < MaxPolls
  /\ pollCount' = pollCount + 1
  /\ IF readOk
     THEN \E r \in {NextChat(IpcState({}), 0, pollCount + 1, clock)} : Resume(r)
     ELSE /\ ipcArmed' = FALSE
          /\ UNCHANGED <<mailbox, ipcPass, ipcLog, messagesJsonl, tasksMtime,
                         lastTasksMtime, lastSeen, store, snapshots, nextId>>
  /\ UNCHANGED nextFile

\* the await of sendMessage is over for the file f
Sent(S, f, ok, pass) ==
  IF ok THEN [S EXCEPT !.log = Append(@, Entry(f, "sent", pass))]
  ELSE Caught(S, f, "sendfail", pass)

\* sendMessage settles: on a rejection the catch block runs (its unlink finds
\* no file); the messages loop goes on with the next file
SendSettles(ok) ==
  /\ ipcPass # NoIpcPass
  /\ \E r \in {RunPass(Sent(IpcState(ipcPass.seen), ipcPass.sending[1], ok, pollCount),
                        ipcPass.ci, ipcPass.queue, pollCount, clock)} : Resume(r)
  /\ UNCHANGED <<nextFile, pollCount>>


(***************************************************************************)
(* Host startup and launch: cleanupOrphanedContainers, which main awaits   *)
(* before anything else, and the part of spawnContainer that builds the    *)
(* worker's command line and hands it its input.  A container name is the  *)
(* sequence of its pieces.                                                 *)
(***************************************************************************)

\* `picoclaw-${chatId}-${now}`
NameOf(chatId, now) == <<"picoclaw-", chatId, "-", now>>

\* the containers a host may be running at startup: leftovers of this system,
\* and unrelated ones
ContainerNames ==
  {NameOf("c1", "1"), NameOf("c2", "2"), NameOf("c1", "3"),
   <<"postgres">>, <<"picoclaw">>, <<"x-", "picoclaw-", "y">>}

\* docker ps --filter name=pat: the names that hold pat anywhere
NameFilter(names, pat) == {n \in names : IndexOf(n, pat, 1) # 0}

\* the variables of the host's environment that readSecrets looks at
SecretKeys == {"CLAUDE_CODE_OAUTH_TOKEN", "ANTHROPIC_API_KEY", "ANTHROPIC_MODEL"}

\* the value of an environment variable that is set
SecretValue(key) == <<"value of", key>>

\* readSecrets(): the secret variables set in process.env, with their values
ReadSecrets(env) == {<<k, SecretValue(k)>> : k \in env \cap SecretKeys}

\* the ContainerInput the callers pass: no secrets field
Input(chatId, prompt) == [prompt |-> prompt, chatId |-> chatId, secrets |-> {}]

NoInput == Input(None, None)

\* const args = [...]: the command line of docker run, every argument being
\* the sequence of its pieces
Args(base, containerName, image) ==
  <<<<"run">>, <<"-i">>, <<"--rm">>, <<"--name">>, containerName,
    <<"-v">>, <<base, "workspace", ":/workspace">>,
    <<"-v">>, <<base, "sessions", ":/home/bun/.claude">>,
    <<"-v">>, <<base, "ipc", ":/ipc">>,
    <<"-v">>, <<base, "logs", ":/logs:ro">>,
    <<"-v">>, <<"agent-runner", "src", ":/app/src:ro">>, <<image>>>>

\* the variables docker run sets in the container: those of its -e and --env
\* arguments; the environment of the docker client is not passed on
ContainerEnv(a) ==
  {a[i + 1] : i \in {j \in 1..(Len(a) - 1) : a[j] \in {<<"-e">>, <<"--env">>}}}

\* mutation: the secrets stay in the input object
ScrubKeeps(obj) == obj

\* input.secrets = undefined
Scrub(obj) == [obj EXCEPT !.secrets = {}]

VARIABLES
  dockerRunning,  \* names of the containers running when the host starts
  psNames,        \* the names docker ps printed
  dockerStopped,  \* the containers docker stop has stopped
  reclaimPc,      \* cleanupOrphanedContainers: "ps", "stop", "resolved"
  dockerFailed,   \* a docker command of the cleanup ended with an error
  hostEnv,        \* the variables set in process.env of the host
  spawnPc,        \* spawnContainer: "idle", "resolveImage", "returned", "rejected"
  input,          \* the caller's ContainerInput object
  stdinData,      \* what was written to the worker's stdin, NoInput before
  args,           \* the command line the worker was spawned with
  childEnv        \* the environment spawn gave the docker client

launchVars ==
  <<dockerRunning, psNames, dockerStopped, reclaimPc, dockerFailed, hostEnv,
    spawnPc, input, stdinData, args, childEnv>>

\* the host starts with the containers running and the variables env set
LaunchStart(running, env) ==
  /\ dockerRunning = running
  /\ psNames = {}
  /\ dockerStopped = {}
  /\ reclaimPc = "ps"
  /\ dockerFailed = FALSE
  /\ hostEnv = env
  /\ spawnPc = "idle"
  /\ input = NoInput
  /\ stdinData = NoInput
  /\ args = <<>>
  /\ childEnv = {}

LaunchInit ==
  \E running \in SUBSET ContainerNames, env \in SUBSET SecretKeys :
     LaunchStart(running, env)

\* the host of the specifications that are about another subsystem
LaunchIdle ==
  /\ dockerRunning = {}
  /\ psNames = {}
  /\ dockerStopped = {}
  /\ reclaimPc = "resolved"
  /\ dockerFailed = FALSE
  /\ hostEnv = {}
  /\ spawnPc = "idle"
  /\ input = NoInput
  /\ stdinData = NoInput
  /\ args = <<>>
  /\ childEnv = {}

\* the callback of docker ps: on an error or an empty listing the cleanup
\* resolves, otherwise docker stop is run on the names listed
DockerPs(err) ==
  /\ reclaimPc = "ps"
  /\ LET names == NameFilter(dockerRunning, <<"picoclaw-">>)
     IN IF err \/ names = {}
        THEN /\ reclaimPc' = "resolved"
             /\ psNames' = {}
        ELSE /\ reclaimPc' = "stop"
             /\ psNames' = names
  /\ dockerFailed' = err
  /\ UNCHANGED <<dockerRunning, dockerStopped, hostEnv, spawnPc, input, stdinData,
                 args, childEnv>>

\* the callback of docker stop, which ignores the command's error
DockerStop(err) ==
  /\ reclaimPc = "stop"
  /\ reclaimPc' = "resolved"
  /\ dockerStopped' = IF err THEN {} ELSE psNames
  /\ dockerFailed' = err
  /\ UNCHANGED <<dockerRunning, psNames, hostEnv, spawnPc, input, stdinData, args,
                 childEnv>>

\* spawnContainer is called and suspends in resolveImage
SpawnContainer(chatId, prompt) ==
  /\ reclaimPc = "resolved"
  /\ spawnPc \in {"idle", "returned", "rejected"}
  /\ spawnPc' = "resolveImage"
  /\ input' = Input(chatId, prompt)
  /\ stdinData' = NoInput
  /\ args' = <<>>
  /\ childEnv' = {}
  /\ UNCHANGED <<dockerRunning, psNames, dockerStopped, reclaimPc, dockerFailed,
                 hostEnv>>

\* resolveImage settles. When it rejects (the image build failed), spawnContainer
\* rejects. Otherwise the rest of spawnContainer runs without suspending:
\* the worker is spawned with args and, no env option being given, with the
\* host's environment; the input with the secrets is written to its stdin and
\* the secrets are taken off the input object
ResolveImageSettles(ok, now) ==
  /\ spawnPc = "resolveImage"
  /\ IF ok
     THEN /\ spawnPc' = "returned"
          /\ args' = Args(input.chatId, NameOf(input.chatId, now), "image")
          /\ childEnv' = hostEnv
          /\ stdinData' = [input EXCEPT !.secrets = ReadSecrets(hostEnv)]
          /\ input' = Scrub([input EXCEPT !.secrets = ReadSecrets(hostEnv)])
     ELSE /\ spawnPc' = "rejected"
          /\ UNCHANGED <<args, childEnv, stdinData, input>>
  /\ UNCHANGED <<dockerRunning, psNames, dockerStopped, reclaimPc, dockerFailed,
                 hostEnv>>


(***************************************************************************)
(* Specifications.                                                         *)
(***************************************************************************)
vars == <<workerVars, taskVars, regVars, ipcVars, launchVars>>

\* one worker under spawnContainer
WorkerNext ==
  \/ (\E k \in 1..Len(wStream) : StdoutData(k)) /\ UNCHANGED <<taskVars, regVars, ipcVars, launchVars>>
  \/ KillOnTimeout /\ UNCHANGED <<taskVars, regVars, ipcVars, launchVars>>
  \/ (\E code \in ExitCodes : ProcClose(code)) /\ UNCHANGED <<taskVars, regVars, ipcVars, launchVars>>
  \/ ProcError /\ UNCHANGED <<taskVars, regVars, ipcVars, launchVars>>
  \/ (\E err \in BOOLEAN : DockerStopSettles(err)) /\ UNCHANGED <<taskVars, regVars, ipcVars, launchVars>>
  \/ OnOutputStart /\ UNCHANGED <<taskVars, regVars, ipcVars, launchVars>>
  \/ (\E i \in inFlight, ok \in BOOLEAN : OnOutputSettle(i, ok)) /\ UNCHANGED <<taskVars, regVars, ipcVars, launchVars>>
  \/ ChainResolve /\ UNCHANGED <<taskVars, regVars, ipcVars, launchVars>>
  \/ WriteCloseSentinel /\ UNCHANGED <<taskVars, regVars, ipcVars, launchVars>>
  \/ ShouldClose /\ UNCHANGED <<taskVars, regVars, ipcVars, launchVars>>

InitWorker == WorkerInit /\ TaskInit /\ RegInit /\ IpcInit /\ LaunchIdle

SpecWorker == InitWorker /\ [][WorkerNext]_vars

\* the task store under mutations and the scheduler loop
TaskNext ==
  \/ (\E f \in MutationFiles : ApplyMutation(f[1], f[2])) /\ UNCHANGED <<workerVars, regVars, ipcVars, launchVars>>
  \/ Tick /\ UNCHANGED <<workerVars, regVars, ipcVars, launchVars>>
  \/ PassStart /\ UNCHANGED <<workerVars, regVars, ipcVars, launchVars>>
  \/ (\E k \in 1..Len(passes), writeOk \in BOOLEAN, outcome \in RunOutcomes :
        PassResume(k, writeOk, outcome))
       /\ UNCHANGED <<workerVars, regVars, ipcVars, launchVars>>

InitTasks == WorkerIdle /\ TaskInit /\ RegInit /\ IpcInit /\ LaunchIdle

SpecTasks == InitTasks /\ [][TaskNext]_vars

\* the task store under mutations alone: processTaskIpc applied to the stores
\* it builds, at every time
MutationNext ==
  \/ (\E f \in MutationFiles : ApplyMutation(f[1], f[2])) /\ UNCHANGED <<workerVars, regVars, ipcVars, launchVars>>
  \/ Tick /\ UNCHANGED <<workerVars, regVars, ipcVars, launchVars>>

InitMutations == WorkerIdle /\ TaskInit /\ RegInit /\ IpcInit /\ LaunchIdle

SpecMutations == InitMutations /\ [][MutationNext]_vars

\* the registry under inbound messages, worker output, timers and worker exit
RegNext ==
  \/ (\E b \in Bots, c \in RegChats, t \in Texts : HandleMessage(b, c, t))
       /\ UNCHANGED <<workerVars, taskVars, ipcVars, launchVars>>
  \/ (\E b \in Bots : DispatchChatActionDone(b)) /\ UNCHANGED <<workerVars, taskVars, ipcVars, launchVars>>
  \/ (\E b \in Bots : StartContainerDone(b)) /\ UNCHANGED <<workerVars, taskVars, ipcVars, launchVars>>
  \/ (\E b \in Bots : SpawnFails(b)) /\ UNCHANGED <<workerVars, taskVars, ipcVars, launchVars>>
  \/ (\E b \in Bots : HandleMessageReturns(b)) /\ UNCHANGED <<workerVars, taskVars, ipcVars, launchVars>>
  \/ (\E c \in RegChats : IdleTimeout(c)) /\ UNCHANGED <<workerVars, taskVars, ipcVars, launchVars>>
  \/ (\E c \in RegChats : TypingTick(c)) /\ UNCHANGED <<workerVars, taskVars, ipcVars, launchVars>>
  \/ (\E w \in 1..Len(workers) : WorkerMain(w)) /\ UNCHANGED <<workerVars, taskVars, ipcVars, launchVars>>
  \/ (\E w \in 1..Len(workers) : DrainIpcInput(w)) /\ UNCHANGED <<workerVars, taskVars, ipcVars, launchVars>>
  \/ (\E w \in 1..Len(workers) : WorkerShouldClose(w))
       /\ UNCHANGED <<workerVars, taskVars, ipcVars, launchVars>>
  \/ (\E w \in 1..Len(workers), sid \in SessionIds, type \in {"text", "result"} :
        HandleOutput(w, sid, type)) /\ UNCHANGED <<workerVars, taskVars, ipcVars, launchVars>>
  \/ (\E w \in 1..Len(workers), ok \in BOOLEAN : HandleOutputDone(w, ok))
       /\ UNCHANGED <<workerVars, taskVars, ipcVars, launchVars>>
  \/ (\E w \in 1..Len(workers), sid \in SessionIds, draining \in BOOLEAN :
        ResultResolves(w, sid, draining)) /\ UNCHANGED <<workerVars, taskVars, ipcVars, launchVars>>
  \/ (\E w \in 1..Len(workers) : ChainDrained(w)) /\ UNCHANGED <<workerVars, taskVars, ipcVars, launchVars>>

InitRegistry == WorkerIdle /\ TaskInit /\ RegInit /\ IpcInit /\ LaunchIdle

SpecRegistry == InitRegistry /\ [][RegNext]_vars

\* the registry of a host that polls one bot: handleMessage calls never overlap
OneBotNext ==
  \/ (\E c \in RegChats, t \in Texts : HandleMessage("b1", c, t))
       /\ UNCHANGED <<workerVars, taskVars, ipcVars, launchVars>>
  \/ DispatchChatActionDone("b1") /\ UNCHANGED <<workerVars, taskVars, ipcVars, launchVars>>
  \/ StartContainerDone("b1") /\ UNCHANGED <<workerVars, taskVars, ipcVars, launchVars>>
  \/ SpawnFails("b1") /\ UNCHANGED <<workerVars, taskVars, ipcVars, launchVars>>
  \/ HandleMessageReturns("b1") /\ UNCHANGED <<workerVars, taskVars, ipcVars, launchVars>>
  \/ (\E c \in RegChats : IdleTimeout(c)) /\ UNCHANGED <<workerVars, taskVars, ipcVars, launchVars>>
  \/ (\E c \in RegChats : TypingTick(c)) /\ UNCHANGED <<workerVars, taskVars, ipcVars, launchVars>>
  \/ (\E w \in 1..Len(workers) : WorkerMain(w))
       /\ UNCHANGED <<workerVars, taskVars, ipcVars, launchVars>>
  \/ (\E w \in 1..Len(workers) : DrainIpcInput(w))
       /\ UNCHANGED <<workerVars, taskVars, ipcVars, launchVars>>
  \/ (\E w \in 1..Len(workers) : WorkerShouldClose(w))
       /\ UNCHANGED <<workerVars, taskVars, ipcVars, launchVars>>
  \/ (\E w \in 1..Len(workers), sid \in SessionIds, type \in {"text", "result"} :
        HandleOutput(w, sid, type)) /\ UNCHANGED <<workerVars, taskVars, ipcVars, launchVars>>
  \/ (\E w \in 1..Len(workers), ok \in BOOLEAN : HandleOutputDone(w, ok))
       /\ UNCHANGED <<workerVars, taskVars, ipcVars, launchVars>>
  \/ (\E w \in 1..Len(workers), sid \in SessionIds, draining \in BOOLEAN :
        ResultResolves(w, sid, draining))
       /\ UNCHANGED <<workerVars, taskVars, ipcVars, launchVars>>
  \/ (\E w \in 1..Len(workers) : ChainDrained(w))
       /\ UNCHANGED <<workerVars, taskVars, ipcVars, launchVars>>

InitOneBot == WorkerIdle /\ TaskInit /\ RegInit /\ IpcInit /\ LaunchIdle

SpecOneBot == InitOneBot /\ [][OneBotNext]_vars

\* the parts of the task store a poll pass leaves alone
IpcFrame ==
  UNCHANGED <<workerVars, regVars, launchVars, clock, mutCount, schedArmed, passes,
              tLast, lastPass, firedOnce, lastRun>>

\* the broker under files written by the workers
IpcNext ==
  \/ (\E kind \in FileKinds : WriteFile(kind)) /\ IpcFrame
  \/ (\E readOk \in BOOLEAN : Poll(readOk)) /\ IpcFrame
  \/ (\E ok \in BOOLEAN : SendSettles(ok)) /\ IpcFrame

InitIpc == WorkerIdle /\ TaskInit /\ RegInit /\ IpcInit /\ LaunchIdle

SpecIpc == InitIpc /\ [][IpcNext]_vars

\* writeTasks of the scheduler, like that of the broker, gives tasks.json a new
\* modification time; the scheduler touches nothing else of the broker
SchedulerFrame ==
  /\ tasksMtime' = IF store' # store \/ tLast'.op = "writeback"
                   THEN tasksMtime + 1 ELSE tasksMtime
  /\ UNCHANGED <<mailbox, nextFile, ipcArmed, ipcPass, ipcLog, messagesJsonl,
                 lastTasksMtime, pollCount, lastSeen>>

\* the broker and the scheduler on one task store: both loops run in the host
\* process, and each may be suspended (in a send, in the run of a task) while
\* the other one runs
SnapshotNext ==
  \/ (\E kind \in FileKinds : WriteFile(kind)) /\ IpcFrame
  \/ (\E readOk \in BOOLEAN : Poll(readOk)) /\ IpcFrame
  \/ (\E ok \in BOOLEAN : SendSettles(ok)) /\ IpcFrame
  \/ Tick /\ UNCHANGED <<workerVars, regVars, launchVars, ipcVars>>
  \/ PassStart /\ SchedulerFrame /\ UNCHANGED <<workerVars, regVars, launchVars>>
  \/ (\E k \in 1..Len(passes), writeOk \in BOOLEAN, outcome \in RunOutcomes :
        PassResume(k, writeOk, outcome))
       /\ SchedulerFrame /\ UNCHANGED <<workerVars, regVars, launchVars>>

InitSnapshots == WorkerIdle /\ TaskInit /\ RegInit /\ IpcInit /\ LaunchIdle

SpecSnapshots == InitSnapshots /\ [][SnapshotNext]_vars

\* the host's startup cleanup and the launches of workers that follow it
LaunchNext ==
  \/ (\E err \in BOOLEAN : DockerPs(err)) /\ UNCHANGED <<workerVars, taskVars, regVars, ipcVars>>
  \/ (\E err \in BOOLEAN : DockerStop(err)) /\ UNCHANGED <<workerVars, taskVars, regVars, ipcVars>>
  \/ (\E c \in Chats, p \in Prompts : SpawnContainer(c, p))
       /\ UNCHANGED <<workerVars, taskVars, regVars, ipcVars>>
  \/ (\E ok \in BOOLEAN, now \in {"1", "2"} : ResolveImageSettles(ok, now))
       /\ UNCHANGED <<workerVars, taskVars, regVars, ipcVars>>

InitLaunch == WorkerIdle /\ TaskInit /\ RegInit /\ IpcInit /\ LaunchInit

SpecLaunch == InitLaunch /\ [][LaunchNext]_vars

(***************************************************************************)
(* Claims about the container runtime manager.                             *)
(***************************************************************************)

\* C2: for one worker, onOutput is called on the frames in the order in which
\* they were parsed (the calls made so far are the first frames of the parse
\* order, without gap or repetition), and at most one call is in progress at
\* any instant, also while a call is suspended and more chunks are parsed.
C2_SerializedInOrder ==
  /\ Cardinality(inFlight) <= 1
  /\ Len(deliveredLog) <= Len(parsedLog)
  /\ \A i \in 1..Len(deliveredLog) : deliveredLog[i] = i
  /\ \A i \in inFlight : i = Len(deliveredLog)

\* C2 witness: a frame was parsed from a later chunk while an earlier call was
\* suspended, and the later frame's call is now in progress after the first
C2_Witness ==
  /\ arrivedDuringCall
  /\ Len(deliveredLog) >= 2
  /\ inFlight = {Len(deliveredLog)}

\* C3: when the watchdog expired, the final result is a Timeout error if no
\* frame had been printed before the expiry, and a success carrying the last
\* session id reported by a frame if at least one frame had been printed.
C3_TimeoutSemantics ==
  (timedOut /\ result # Pending) =>
     IF framesAtExpiry = 0
     THEN result.status = "error" /\ result.error = "timeout"
     ELSE /\ result.status = "success"
          /\ result.newSessionId = LastSessionId(FramesOf(stdout), None)

\* C4: a worker that exited after it consumed a close sentinel (and was not
\* stopped by the watchdog) is reported as a success, whatever its exit code.
C4_CloseIsSuccess ==
  (closedAfterClose /\ ~timedOut /\ result # Pending) => result.status = "success"

\* C7: once the whole stream has been fed to the handler, in whatever chunks,
\* the frames parsed are the frames parsed from the stream fed as one chunk.
C7_ChunkingInvariant ==
  (hasOnOutput /\ wPos = Len(wStream)) =>
     parsedLog = FramesOf(BufferToString(wStream))

(***************************************************************************)
(* Claims about the task store and the scheduler loop.                     *)
(***************************************************************************)

\* positions of the tasks of chatId that carry label
Labelled(tasks, chatId, label) ==
  {i \in 1..Len(tasks) : tasks[i].chatId = chatId /\ tasks[i].label = label}

\* the schedule mutation is one processTaskIpc does not ignore
Accepted(data, now) ==
  /\ data.prompt # None /\ data.schedule_type # None /\ data.schedule_value # None
  /\ \/ ComputeNextRun(data.schedule_type, data.schedule_value, now) # Null
     \/ data.schedule_type = "once"

\* the step applied, for the second time in a row, a schedule mutation that
\* carries a label and is not ignored
SecondApplication(step, now) ==
  /\ step.op = "schedule"
  /\ step.again
  /\ step.data.label # None
  /\ Accepted(step.data, now)

\* C5: applying the same labelled schedule mutation for the same chat a second
\* time creates no task: the store keeps its length, holds exactly one task
\* with that (chatId, label), that task has the id it had before, and it
\* carries the mutation's prompt, schedule_type, schedule_value and the
\* next_run computed by the second application.
C5_UpsertIdempotent ==
  [][ SecondApplication(tLast', clock) =>
        LET data == tLast'.data
            chatId == MutationChat(data, tLast'.src)
            before == Labelled(store, chatId, data.label)
            after == Labelled(store', chatId, data.label)
        IN /\ Len(store') = Len(store)
           /\ nextId' = nextId
           /\ Cardinality(before) = 1
           /\ Cardinality(after) = 1
           /\ \A i \in before, j \in after :
                /\ store'[j].id = store[i].id
                /\ store'[j].prompt = data.prompt
                /\ store'[j].schedule_type = data.schedule_type
                /\ store'[j].schedule_value = data.schedule_value
                /\ store'[j].status = "active"
                /\ store'[j].next_run =
                     ComputeNextRun(data.schedule_type, data.schedule_value, clock)
    ]_vars

\* C5 witness: a labelled schedule mutation has just been applied for the
\* second time in a row and the store holds the one task it names
C5_Witness ==
  /\ SecondApplication(tLast, clock)
  /\ Cardinality(Labelled(store, MutationChat(tLast.data, tLast.src),
                          tLast.data.label)) = 1

\* C6: no two tasks of the store share (chatId, label) when they carry a label
C6_LabelUnique ==
  \A i, j \in 1..Len(store) :
     (/\ store[i].label # None
      /\ store[i].chatId = store[j].chatId
      /\ store[i].label = store[j].label) => i = j

\* C6 witness: a scheduler pass has just written back a store that holds
\* the same label in two chats
C6_Witness ==
  /\ tLast.op = "writeback"
  /\ \E i, j \in 1..Len(store) :
        /\ store[i].label # None
        /\ store[i].label = store[j].label
        /\ store[i].chatId # store[j].chatId

\* ids of the tasks a pass ran, and of those among them of a given kind
FiredIds(pass) == {pass.fired[k] : k \in 1..Len(pass.fired)}

\* the task a pass in progress is running
Running(pass) == pass.tasks[pass.i]

C9_NoDoubleRun ==
  /\ Len(passes) + schedArmed <= 1
  /\ \A k \in 1..Len(passes) :
        /\ Running(passes[k]).id \notin FiredIds(passes[k])
        /\ \A a, b \in 1..Len(passes[k].fired) :
              passes[k].fired[a] = passes[k].fired[b] => a = b
  /\ \A a, b \in 1..Len(lastPass.fired) :
        lastPass.fired[a] = lastPass.fired[b] => a = b
  /\ tLast.op = "writeback" =>
       \A i \in 1..Len(store) :
          (/\ store[i].id \in FiredIds(lastPass)
           /\ store[i].schedule_type \in {"cron", "interval"})
          => /\ store[i].next_run # Null
             /\ store[i].next_run > lastPass.now

\* C9 witness: a pass that ran two due tasks, a recurring one among them,
\* has just written the store back
C9_Witness ==
  /\ tLast.op = "writeback"
  /\ Len(lastPass.fired) >= 2
  /\ \E i \in 1..Len(store) :
        /\ store[i].id \in FiredIds(lastPass)
        /\ store[i].schedule_type \in {"cron", "interval"}

(***************************************************************************)
(* Claims about the session registry.                                      *)
(***************************************************************************)

\* the registry entries stored for a chat
EntriesOf(chatId) == {e \in containers : e.chatId = chatId}

\* the workers of a chat whose result has not resolved yet
LiveWorkers(chatId) ==
  {w \in 1..Len(workers) :
     workers[w].chatId = chatId /\ workers[w].state \in {"booting", "live"}}

\* C1: in every reachable state the registry holds at most one container for
\* every chat, whatever the interleaving of inbound messages, worker output,
\* idle timers, resets and worker exits.
C1_OneContainerPerChat ==
  \A c \in RegChats : Cardinality(EntriesOf(c)) <= 1

\* C1 witness: two messages for one chat were both in startContainer, the
\* second spawn has just replaced the entry the first had stored, and both
\* workers are running
C1_Witness ==
  /\ rLast = "replace"
  /\ \E c \in RegChats :
        /\ Cardinality(EntriesOf(c)) = 1
        /\ Cardinality(LiveWorkers(c)) = 2

(***************************************************************************)
(* Claims about the IPC broker.                                            *)
(***************************************************************************)

LoggedIds == {ipcLog[i].id : i \in 1..Len(ipcLog)}

\* C10: every mailbox file is processed at most once, also when its send
\* failed or it was malformed; a processed file no longer exists, nor does
\* the file being sent; and a pass that has ended has processed every file it
\* listed, whatever happened to the files before it.
C10_AtMostOnce ==
  /\ \A i, j \in 1..Len(ipcLog) : ipcLog[i].id = ipcLog[j].id => i = j
  /\ \A f \in mailbox : f.id \notin LoggedIds
  /\ \A i \in 1..Len(ipcPass.sending) : ipcPass.sending[i] \notin mailbox
  /\ ipcPass = NoIpcPass => lastSeen \subseteq LoggedIds

\* C10 witness: in one pass the send of a file failed, another file was
\* malformed, and a file after both was sent or applied; a later pass has
\* ended since and the mailboxes are empty
C10_Witness ==
  /\ ipcPass = NoIpcPass
  /\ mailbox = {}
  /\ \E i, j, k \in 1..Len(ipcLog) :
        /\ i < k /\ j < k
        /\ ipcLog[i].pass = ipcLog[k].pass
        /\ ipcLog[j].pass = ipcLog[k].pass
        /\ ipcLog[k].pass < pollCount
        /\ ipcLog[i].outcome = "sendfail"
        /\ ipcLog[j].outcome = "malformed"
        /\ ipcLog[k].outcome \in {"sent", "applied"}

\* every handleMessage call has returned and every worker has exited with its
\* output chain drained: nothing more is sent unless a new message arrives
Quiescent ==
  /\ \A b \in Bots : handlers[b] = Idle
  /\ \A w \in 1..Len(workers) : workers[w].state = "gone" /\ workers[w].busy = "no"

\* C11: every accepted inbound message is eventually answered on the chat with
\* a result text or an explicit error message, also after a spawn failure, a
\* timeout without frames or a non-zero exit. Stated on the end of a run: once
\* every handler has returned and every worker has exited, no chat has an
\* accepted message with nothing sent since.
C11_ErrorsAnswered == Quiescent => unanswered = {}

\* a follow-up step of bot b: handleMessage found a container for the chat and
\* suspended in its typing action
FollowUpStep(b, chatId) ==
  /\ handlers[b] = Idle
  /\ handlers'[b].pc = "typing"
  /\ handlers'[b].chatId = chatId

\* the step of the idle timer's callback that closes the chat's container
IdleCloseStep(chatId) ==
  /\ chatId \in idleTimers
  /\ chatId \notin idleTimers'
  /\ MapHas(containers, chatId)
  /\ ~MapHas(containers', chatId)
  /\ handlers' = handlers
  /\ workers' = workers

\* C12: the idle timer of an active chat is restarted by every inbound message
\* for it and by every output frame, so the idle close fires only on a timer
\* armed after the chat's last inbound message and last delivered frame.
C12_IdleCloseAfterFullIdle ==
  [][\A c \in RegChats : IdleCloseStep(c) => c \notin idleStale]_vars

\* C13: an inbound message for a chat with a container spawns no worker: its
\* text is written as one item carrying that text to the chat's input
\* directory and the chat is typing again.
C13_FollowUpForwarded ==
  [][\A b \in Bots, c \in RegChats :
       FollowUpStep(b, c) =>
         /\ workers' = workers
         /\ c \in typingIntervals'
         /\ \E f \in inputFiles' :
              /\ f.chatId = c
              /\ f.text \in Texts \ {"/new"}]_vars

\* the reset step of bot b: handleMessage ran the reset command and suspended
\* in its reply
ResetStep(b, chatId) ==
  /\ handlers[b] = Idle
  /\ handlers'[b].pc = "reply"
  /\ handlers'[b].chatId = chatId

\* the step by which bot b enters startContainer for the chat
StartStep(b, chatId) ==
  /\ handlers[b] = Idle
  /\ handlers'[b].pc = "action"
  /\ handlers'[b].chatId = chatId

\* C14: after a reset the registry holds no container for the chat, the close
\* request was issued to the container it had, the stored session id is
\* cleared, and the next worker started for the chat gets no session id to
\* resume.
C14_ResetStartsFresh ==
  [][\A b \in Bots, c \in RegChats :
       /\ ResetStep(b, c) =>
            /\ ~MapHas(containers', c)
            /\ MapHas(containers, c) => c \in closeFiles'
            /\ sessions'[c] = None
       /\ (StartStep(b, c) /\ c \in afterReset) => handlers'[b].sessionId = None]_vars

\* a schedule mutation lacking its prompt, kind or value
Lacking(data) ==
  data.prompt = None \/ data.schedule_type = None \/ data.schedule_value = None

\* a schedule mutation of a recurring kind whose value is no schedule of it
InvalidRecurring(data) ==
  \/ data.schedule_type = "cron" /\ ~CronValid(data.schedule_value)
  \/ /\ data.schedule_type = "interval"
     /\ ParseIntIsNaN(data.schedule_value) \/ ParseInt(data.schedule_value) <= 0

Applied(f) == ProcessTaskIpc(store, f[2], f[1], clock, nextId).tasks

\* new is old with only the task data.taskId changed, only in the fields data
\* supplies, and its schedule either kept or replaced as a whole by the
\* supplied schedule and that schedule's next run
UpdateFrame(old, data, new, now) ==
  /\ Len(new) = Len(old)
  /\ \A i \in 1..Len(old) :
       IF old[i].id # data.taskId
       THEN new[i] = old[i]
       ELSE /\ new[i].id = old[i].id
            /\ new[i].chatId = old[i].chatId
            /\ new[i].label = old[i].label
            /\ data.prompt = None => new[i].prompt = old[i].prompt
            /\ data.status = None => new[i].status = old[i].status
            /\ \/ /\ new[i].schedule_type = old[i].schedule_type
                  /\ new[i].schedule_value = old[i].schedule_value
                  /\ new[i].next_run = old[i].next_run
               \/ /\ data.schedule_type # None
                  /\ data.schedule_value # None
                  /\ new[i].schedule_type = data.schedule_type
                  /\ new[i].schedule_value = data.schedule_value
                  /\ new[i].next_run # Null
                  /\ new[i].next_run =
                       ComputeNextRun(data.schedule_type, data.schedule_value, now)

C17_ValueOnlyUpdate ==
  \A f \in UpdateFiles :
    (f[2].schedule_type = None /\ f[2].schedule_value # None) =>
      \A i \in 1..Len(store), new \in {Applied(f)} :
        (/\ store[i].id = f[2].taskId
         /\ ComputeNextRun(store[i].schedule_type, f[2].schedule_value, clock) # Null)
        => /\ new[i].schedule_value = f[2].schedule_value
           /\ new[i].next_run =
                ComputeNextRun(store[i].schedule_type, f[2].schedule_value, clock)

\* the tasks a delete mutation names: the one with its id, those of its chat
\* with its label
Named(t, data, chatId) ==
  \/ data.taskId # 0 /\ t.id = data.taskId
  \/ data.label # None /\ t.chatId = chatId /\ t.label = data.label

\* new holds exactly the tasks of old that data does not name, as they were
DeleteFrame(old, data, chatId, new) ==
  /\ Len(new) = Cardinality({i \in 1..Len(old) : ~Named(old[i], data, chatId)})
  /\ \A j \in 1..Len(new) :
       \E i \in 1..Len(old) : old[i] = new[j] /\ ~Named(old[i], data, chatId)
  /\ \A i \in 1..Len(old) :
       ~Named(old[i], data, chatId) => \E j \in 1..Len(new) : new[j] = old[i]

IntervalRuns ==
  {<<i, k>> \in (1..Len(lastPass.tasks)) \X (1..Len(lastPass.fired)) :
     /\ lastPass.tasks[i].id = lastPass.fired[k]
     /\ lastPass.tasks[i].schedule_type = "interval"}

\* C19 as stated, the time of the run being the now the pass read when it found
\* the task due: after the scheduler ran an interval task, the persisted
\* next_run is that time plus the interval, and the task is still active.
C19_IntervalFromPassNow ==
  tLast.op = "writeback" =>
    \A r \in IntervalRuns :
      /\ store[r[1]].next_run = lastPass.now + ParseInt(store[r[1]].schedule_value)
      /\ store[r[1]].status = "active"

\* C19, amended: after the scheduler ran an interval task, the persisted
\* next_run is the time at which the task's run ended plus the interval, and
\* the task is still active.
C19_IntervalFromRunEnd ==
  tLast.op = "writeback" =>
    \A r \in IntervalRuns :
      /\ store[r[1]].next_run =
           lastPass.ended[r[2]] + ParseInt(store[r[1]].schedule_value)
      /\ store[r[1]].status = "active"

\* a pass wrote back an interval task whose run ended after the pass began
C19_Witness ==
  /\ tLast.op = "writeback"
  /\ \E r \in IntervalRuns : lastPass.ended[r[2]] > lastPass.now

\* the worker process ran and its close event carried a non-zero code, with no
\* timeout
NonZeroExit ==
  /\ procState = "closed"
  /\ exitCode > 0
  /\ ~timedOut
  /\ result.error # "spawn"

\* C20: a worker that exits with a non-zero code without having timed out has
\* as its final result an error whose message carries the exit code, with no
\* result text.
C20_NonZeroExitIsError ==
  NonZeroExit =>
    /\ result.status = "error"
    /\ result.error = "exit"
    /\ result.code = exitCode
    /\ result.result = <<>>

\* a streaming worker printed a complete frame and then exited with code 1
C20_Witness ==
  /\ NonZeroExit
  /\ hasOnOutput
  /\ parsedLog # <<>>

(***************************************************************************)
(* Claims about the two polling loops.                                     *)
(***************************************************************************)

\* C21: both polling loops stay alive: whenever no pass of the task scheduler
\* is in progress its next pass is armed, and whenever no pass of the IPC
\* broker is in progress its next pass is armed, whatever failed during the
\* pass before (a failed write of the task store and a failed directory read
\* included).
C21_LoopsStayArmed ==
  /\ passes = <<>> => schedArmed > 0
  /\ ipcPass = NoIpcPass => ipcArmed

(***************************************************************************)
(* Claims about host startup and launch.                                   *)
(***************************************************************************)

\* the name follows the naming convention of this system's containers
MatchesConvention(name) == Head(name) = "picoclaw-"

\* C22: when the startup cleanup has resolved and its docker commands did not
\* fail, the containers stopped are exactly the running containers whose name
\* matches the naming convention: every one of them, and no other container.
C22_StopsExactlyMatching ==
  (reclaimPc = "resolved" /\ ~dockerFailed) =>
     dockerStopped = {n \in dockerRunning : MatchesConvention(n)}

\* the values of the secrets the host holds
SecretValues == {kv[2] : kv \in ReadSecrets(hostEnv)}

ExitStep(w) ==
  /\ workers[w].state \in {"booting", "live"}
  /\ workers'[w].state \in {"draining", "gone"}

\* the chat's registry entry belongs to a container spawned after worker w
NewerContainer(w) ==
  /\ MapHas(containers, workers[w].chatId)
  /\ MapGet(containers, workers[w].chatId).containerName > w

\* C24: when a worker exits that was detached from the registry (by idle
\* timeout or reset) and a newer container has been spawned for its chat since,
\* the exit leaves the newer container's registry entry, the typing loop and
\* the idle timer as they are.
C24_ExitKeepsNewerContainer ==
  [][\A w \in 1..Len(workers) :
       (ExitStep(w) /\ NewerContainer(w)) =>
          /\ containers' = containers
          /\ typingIntervals' = typingIntervals
          /\ idleTimers' = idleTimers]_vars

(***************************************************************************)
(* Claims about the task store shared by the broker and the scheduler.     *)
(***************************************************************************)

\* C25: a mutation the broker applied while a scheduler pass was in progress
\* keeps its effect when the pass writes its tasks back: every task of the
\* store that the pass did not run is in the store written, as it was (created
\* tasks stay, updated and paused tasks keep their fields), every task the pass
\* ran keeps its prompt, and no task absent from the store (deleted) is in the
\* store written.
C25_WritebackKeepsMutations ==
  [][tLast'.op = "writeback" =>
       /\ \A i \in 1..Len(store) :
            IF store[i].id \in FiredIds(lastPass')
            THEN \E j \in 1..Len(store') :
                    store'[j].id = store[i].id /\ store'[j].prompt = store[i].prompt
            ELSE \E j \in 1..Len(store') : store'[j] = store[i]
       /\ \A j \in 1..Len(store') :
            \E i \in 1..Len(store) : store[i].id = store'[j].id]_vars

\* C26: after a reset the stored session id of the chat stays cleared until a
\* worker spawned after the reset reports one. Stated on the time up to the
\* next start: while the chat was reset and no startContainer call was made
\* for it since, so that every worker of the chat was spawned before the
\* reset, the session store holds no session id for the chat.
C26_SessionStaysCleared ==
  \A c \in RegChats : c \in afterReset => sessions[c] = None

(***************************************************************************)
(* Claims about a worker's output pipeline.                                *)
(***************************************************************************)

\* the worker process has closed, no onOutput call is in progress and no
\* callback queued on outputChain can run any more
PipelineAtRest ==
  /\ procState = "closed"
  /\ inFlight = {}
  /\ outputChain = <<>> \/ ~ChainReady

\* C27: a failing onOutput call does not wedge the pipeline. Stated on the end
\* of a run: once the process has closed and the pipeline is at rest, every
\* frame parsed (those parsed after a failed call included) was delivered to
\* onOutput and the result promise is resolved.
C27_FailedFrameNoWedge ==
  PipelineAtRest =>
     /\ Len(deliveredLog) = Len(parsedLog)
     /\ result # Pending

\* C28: at any instant at most one interactive worker of a chat is running: no
\* worker is spawned for a chat while a worker spawned for it before, closed by
\* idle timeout or reset, has not exited yet.
C28_OneLiveWorkerPerChat ==
  \A c \in RegChats : Cardinality(LiveWorkers(c)) <= 1

\* C29: task mutations are isolated per chat: whatever mutation file is read
\* from a chat's mailbox, whatever chatId or taskId it carries, applying it
\* leaves the tasks of every other chat as they are (none created, changed or
\* removed).
C29_MutationsIsolated ==
  \A f \in MutationFiles :
    \A c \in Chats \ {f[1]} : TasksOfChat(Applied(f), c) = TasksOfChat(store, c)

\* the step in which the main of worker w starts
BootStep(w) ==
  /\ workers[w].state = "booting"
  /\ workers'[w].state = "live"

\* the workers of a chat, other than w, that have started and not exited: each
\* looks for the chat's close sentinel when it next polls its input
Polling(chatId, w) ==
  {v \in 1..Len(workers) :
     v # w /\ workers[v].chatId = chatId /\ workers[v].state = "live"}

\* C30: a close request written for a chat's container is consumed by that
\* container's worker only, so that it closes the container it was issued to.
\* Stated on the start of a worker: the sentinel a starting worker removes is
\* stale, no other worker of the chat being up to consume it.
C30_CloseReachesItsContainer ==
  [][\A w \in 1..Len(workers) :
       (BootStep(w) /\ workers[w].chatId \in closeFiles) =>
          Polling(workers[w].chatId, w) = {}]_vars

\* C31: the final result of a worker is resolved only after every frame parsed
\* from its output was handed to onOutput and that call has completed, on every
\* exit path.
C31_ResultAfterFrames ==
  result # Pending =>
     /\ Len(deliveredLog) = Len(parsedLog)
     /\ inFlight = {}

\* ids of the tasks, among those a pass read, that are active with a non-null
\* next_run not after the pass's now
DueIds(read, now) ==
  {read[j].id : j \in {i \in 1..Len(read) :
      /\ read[i].status = "active"
      /\ read[i].next_run # Null
      /\ read[i].next_run <= now}}

\* positions of the tasks a pass read that it has not run
NotRun(pass) == {j \in 1..Len(pass.read) : pass.read[j].id \notin FiredIds(pass)}

PosOf(read, id) == CHOOSE j \in 1..Len(read) : read[j].id = id

\* the k-th task a pass ran is, in tasks, what a successful run that ended when
\* it did leaves of the task as read
RunRecorded(pass, tasks, k) ==
  tasks[PosOf(pass.read, pass.fired[k])] =
     AfterRun(pass.read[PosOf(pass.read, pass.fired[k])], pass.ended[k])

\* C33: when the run of a due task fails (spawnEphemeral or the send of its
\* result throws), the pass goes on to the next due task it read, or, when
\* there is none, writes its tasks back; the failed task's next_run is the one
\* a successful run leaves, and every task the pass ran is persisted so.
C33_FailedRunGoesOn ==
  (lastRun.outcome \in {"throws", "sendfails"} /\ tLast.op # "writefail") =>
     IF passes # <<>>
     THEN /\ passes[1].fired[Len(passes[1].fired)] = lastRun.id
          /\ RunRecorded(passes[1], passes[1].tasks, Len(passes[1].fired))
          /\ passes[1].i =
               NextDue(passes[1].read, PosOf(passes[1].read, lastRun.id) + 1,
                       passes[1].now)
          /\ passes[1].i # 0
     ELSE /\ tLast.op = "writeback"
          /\ lastPass.fired[Len(lastPass.fired)] = lastRun.id
          /\ NextDue(lastPass.read, PosOf(lastPass.read, lastRun.id) + 1,
                     lastPass.now) = 0
          /\ \A k \in 1..Len(lastPass.fired) : RunRecorded(lastPass, store, k)

\* the run of a task threw and the pass is running the next due task
C33_Witness ==
  /\ lastRun.outcome = "throws"
  /\ passes # <<>>

\* C34: when the idle timer of a chat with a container fires, the close
\* sentinel is written for the chat, the chat's entry is discarded, its typing
\* interval is cleared and no timer is pending; when it fires for a chat with
\* no container, the registry, the typing interval, the chat's files and its
\* session are left as they are.
C34_IdleTimerFires ==
  [][\A c \in RegChats :
       (rLast' = "idle" /\ c \in idleTimers /\ c \notin idleTimers') =>
          IF MapHas(containers, c)
          THEN /\ c \in closeFiles'
               /\ ~MapHas(containers', c)
               /\ c \notin typingIntervals'
          ELSE /\ containers' = containers
               /\ closeFiles' = closeFiles
               /\ typingIntervals' = typingIntervals
               /\ inputFiles' = inputFiles
               /\ sessions' = sessions
               /\ workers' = workers]_vars

\* the idle timer of a chat has just closed the container of a running worker
C34_Witness ==
  /\ rLast = "idle"
  /\ \E c \in RegChats :
        /\ c \in closeFiles
        /\ ~MapHas(containers, c)
        /\ c \notin typingIntervals
        /\ LiveWorkers(c) # {}

\* the session id sessions.json holds for the chat of a worker started with no
\* stored session: handleOutput stores the id of a frame before it sends the
\* frame's text, and the result handler of startContainer stores the id of the
\* final result
PersistedSession ==
  IF result # Pending /\ result.newSessionId # None
  THEN result.newSessionId
  ELSE LastSessionId([k \in 1..Len(deliveredLog) |-> parsedLog[deliveredLog[k]]], None)

\* the last session id the worker reported in a frame of its output
ReportedSession == LastSessionId(parsedLog, None)

\* C35: whenever the process of a chat's worker has exited, for any reason, the
\* final session id it reported is persisted. Stated on the end of a run: once
\* the process has closed and no callback of the output chain can run any
\* more, the stored session id is the last one the worker reported.
C35_FinalSessionPersisted ==
  (hasOnOutput /\ PipelineAtRest /\ ReportedSession # None) =>
     PersistedSession = ReportedSession

\* the step in which handleOutput, called by worker w on a frame of the given
\* type, returns after its send: the chat's idle timer is re-armed
FrameHandled(w, type) ==
  /\ workers[w].busy = type
  /\ workers'[w].busy = "no"
  /\ workers[w].chatId \in idleTimers'
  /\ workers[w].chatId \notin idleStale'

\* a step of a handleMessage call
MessageStep == \E b \in Bots : handlers'[b] # handlers[b]

PollPassEnds ==
  /\ pollCount' # pollCount \/ ipcPass # NoIpcPass
  /\ ipcPass' = NoIpcPass
  /\ ipcArmed'

C38_WatchdogTerminates ==
  /\ procState = "running" => timeoutArmed
  /\ timedOut => stopState # "none"
  /\ (timedOut /\ PipelineAtRest) => result # Pending

\* the same three statements for the runs in which no onOutput call rejected
WatchdogTerminatesUnlessRejected ==
  /\ procState = "running" => timeoutArmed
  /\ timedOut => stopState # "none"
  /\ (timedOut /\ PipelineAtRest /\ ~chainRejected) => result # Pending

\* the frames the worker has printed so far, as the stdout handler has them:
\* the frames it parsed, or those the captured output holds when nothing is
\* parsed while the worker runs
FramesSeen == IF hasOnOutput THEN Len(parsedLog) ELSE Len(FramesOf(stdout))

\* C39: for every worker, spawned with a streaming callback or without, each
\* frame restarts the watchdog: a pending watchdog timer was started when the
\* last frame so far was printed, or at the spawn when there is none, so that
\* it expires a full budget after that frame and not before.
C39_FramesRestartWatchdog ==
  timeoutArmed => framesAtArm = FramesSeen

\* the same for the workers spawned with a streaming callback only
StreamedFramesRestartWatchdog ==
  (hasOnOutput /\ timeoutArmed) => framesAtArm = FramesSeen

\* C40: when a worker spawned without a streaming callback has exited with a
\* non-zero code (it was not stopped by the watchdog) and its captured output
\* holds a frame, the final result is the trailing frame of that output.
C40_NonZeroExitScansOutput ==
  (/\ ~hasOnOutput
   /\ procState = "closed"
   /\ ~timedOut
   /\ exitCode # 0
   /\ FramesOf(stdout) # <<>>)
  => result = FrameResult(FramesOf(stdout)[Len(FramesOf(stdout))])

====
